---- MODULE Spec2Model ----
(***************************************************************************)
(* prismerge (js): merging n SQLite databases that share a Prisma schema.  *)
(*                                                                         *)
(* The model follows src/js/src/merge.ts (prismerge, mergeModel),          *)
(* src/js/src/connection.ts (Connection.each and, from line 90 on, the     *)
(* InsertManager) and src/js/src/data.ts (Schema, Model, Column, MapTable, *)
(* and, from line 261 on, the schema of the test suite).                   *)
(*                                                                         *)
(* JavaScript runs one callback at a time.  A piece of code runs without   *)
(* interruption until it awaits a request to a database driver; every      *)
(* action below is one such piece.  Requests to the destination connection *)
(* wait in `inflight` until the driver completes them.                     *)
(***************************************************************************)
EXTENDS Integers, Sequences, FiniteSets, TLC

VARIABLES
    schema,      \* the Schema handed to prismerge: its models in Map insertion order
    minInserts,  \* prismerge's minInserts argument (the InsertManager threshold)
    sources,     \* connections: sources[i][table] = the set of rows of that table
    order,       \* merge.ts:142  let order = schema.sortedModels()
    pc,          \* where prismerge / mergeModel is suspended
    mi,          \* index into order of the model being merged
    dest,        \* the merged database: [catalog, tables, pragmas]
    inflight,    \* requests issued on the destination connection, not yet completed
    inserter,    \* the InsertManager of the running mergeModel: [statements, count]
    plan,        \* mergeModel's locals [primary, sorted, ci], one per model merged so far
    todo,        \* rows of the running db.each that the driver has not delivered yet
    cbs,         \* row callbacks that have started and not yet settled
    minted,      \* number of keys crypto.randomUUID() has produced
    progress,    \* the ProgressIndicator of the running mergeModel: [count, total]
    errors,      \* the errors the driver has reported: [on, owner]
    options,     \* part_002:12-28  the options of the command line: [keepIdMaps]
    console,     \* the lines merge has written with console.log
    each         \* connection.ts:20-61  the locals of the running Connection.each

vars == <<schema, minInserts, sources, order, pc, mi, dest, inflight, inserter,
          plan, todo, cbs, minted, progress, errors, options, console, each>>

(***************************************************************************)
(* Bounds of the model.                                                    *)
(***************************************************************************)
MaxSources == 2      \* number of input databases: 1..MaxSources
MaxInserts == 2      \* minInserts: 1..MaxInserts
MaxRows == 5         \* rows over all inputs and models
MaxModels == 3       \* models of a schema handed to sortedModels alone

(***************************************************************************)
(* option.ts                                                               *)
(***************************************************************************)
None == <<>>
Some(value) == <<value>>
isSome(o) == Len(o) = 1
unwrap(o) == o[1]

(***************************************************************************)
(* Sequence helpers.                                                       *)
(***************************************************************************)
Range(s) == {s[i] : i \in 1..Len(s)}
includes(s, x) == \E i \in 1..Len(s) : s[i] = x
reverse(s) == [i \in 1..Len(s) |-> s[Len(s) + 1 - i]]
IndexOf(s, x) == CHOOSE i \in 1..Len(s) : s[i] = x

RECURSIVE Flatten(_)
Flatten(ss) == IF ss = <<>> THEN <<>> ELSE Head(ss) \o Flatten(Tail(ss))

(***************************************************************************)
(* data.ts: Relation, ColumnType, Column, Unique, Model, Schema            *)
(***************************************************************************)
Relation(fields, references) == [fields |-> fields, references |-> references]
ColumnType(name, collection, nullable) ==
    [name |-> name, collection |-> collection, nullable |-> nullable]
Column(name, ty, relation, unique, primary_key) ==
    [name |-> name, ty |-> ty, relation |-> relation, unique |-> unique,
     primary_key |-> primary_key]
Unique(columnNames) == [columnNames |-> columnNames]
MapTableName(modelName) == modelName \o "_id_map"

\* Model's constructor: the primary key is the last column flagged primary_key.
primaryKeyIndex(columns) ==
    LET S == {i \in 1..Len(columns) : columns[i].primary_key}
    IN IF S = {} THEN None ELSE Some(CHOOSE i \in S : \A j \in S : j <= i)

Model(name, columns, unique) ==
    [name |-> name, columns |-> columns, unique |-> unique,
     mapTable |-> MapTableName(name), primaryKeyIndex |-> primaryKeyIndex(columns)]

primaryKey(model) ==
    IF isSome(model.primaryKeyIndex)
    THEN Some(model.columns[unwrap(model.primaryKeyIndex)]) ELSE None

getCol(model, name) ==
    LET S == {i \in 1..Len(model.columns) : model.columns[i].name = name}
    IN IF S = {} THEN None
       ELSE Some(model.columns[CHOOSE i \in S : \A j \in S : i <= j])

hasRelation(column) == isSome(column.relation)

\* The first column of the model whose @relation lists this column as a field.
getRelatedColumn(column, model) ==
    LET S == {i \in 1..Len(model.columns) :
                 /\ isSome(model.columns[i].relation)
                 /\ includes(unwrap(model.columns[i].relation).fields, column.name)}
    IN IF S = {} THEN None
       ELSE Some(model.columns[CHOOSE i \in S : \A j \in S : i <= j])

modelsHas(sch, name) == \E i \in 1..Len(sch) : sch[i].name = name
modelsGet(sch, name) == sch[CHOOSE i \in 1..Len(sch) : sch[i].name = name]

isRegular(column, sch) ==
    /\ ~column.primary_key
    /\ ~column.ty.collection
    /\ ~hasRelation(column)
    /\ ~modelsHas(sch, column.ty.name)

(***************************************************************************)
(* Schema.sortedModels and the toposort package it calls.                  *)
(***************************************************************************)
\* data.ts:176-186: one edge [model, referenced model] per column with a relation.
RECURSIVE columnEdges(_, _, _)
columnEdges(model, sch, i) ==
    IF i > Len(model.columns) THEN <<>>
    ELSE LET column == model.columns[i]
         IN (IF isSome(column.relation) /\ modelsHas(sch, column.ty.name)
             THEN <<<<model.name, modelsGet(sch, column.ty.name).name>>>>
             ELSE <<>>) \o columnEdges(model, sch, i + 1)

sortEdges(sch) == Flatten([i \in 1..Len(sch) |-> columnEdges(sch[i], sch, 1)])

\* toposort's makeOutgoingEdges: the targets of a node, each once, in edge order.
RECURSIVE outgoing(_, _, _)
outgoing(node, edges, acc) ==
    IF edges = <<>> THEN acc
    ELSE LET e == Head(edges)
         IN outgoing(node, Tail(edges),
                     IF e[1] = node /\ ~includes(acc, e[2]) THEN Append(acc, e[2]) ELSE acc)

\* toposort's visit: depth first, a node is written in front of the nodes
\* written so far (sorted[--cursor] = node) once all its targets are written.
\* The children are visited from the last to the first.
RECURSIVE visit(_, _, _)
RECURSIVE visitChildren(_, _, _, _)
visit(node, edges, st) ==
    IF node \in st.visited THEN st
    ELSE LET out == outgoing(node, edges, <<>>)
             st1 == [st EXCEPT !.visited = @ \cup {node}]
             st2 == visitChildren(out, Len(out), edges, st1)
         IN [st2 EXCEPT !.sorted = <<node>> \o @]
visitChildren(out, i, edges, st) ==
    IF i = 0 THEN st
    ELSE visitChildren(out, i - 1, edges, visit(out[i], edges, st))

\* toposort.array(nodes, edges): while (i--) if (!visited[i]) visit(nodes[i], ...)
RECURSIVE toposortFrom(_, _, _, _)
toposortFrom(nodes, i, edges, st) ==
    IF i = 0 THEN st.sorted
    ELSE toposortFrom(nodes, i - 1, edges, visit(nodes[i], edges, st))

toposortArray(nodes, edges) ==
    toposortFrom(nodes, Len(nodes), edges, [visited |-> {}, sorted |-> <<>>])

\* A plausible slip: the result of toposort is used as it comes (no reverse()).
sortedModelsNoReverse(sch) ==
    LET modelNames == toposortArray([i \in 1..Len(sch) |-> sch[i].name], sortEdges(sch))
    IN [i \in 1..Len(modelNames) |-> modelsGet(sch, modelNames[i])]

sortedModels(sch) ==
    LET modelNames == toposortArray([i \in 1..Len(sch) |-> sch[i].name], sortEdges(sch))
    IN reverse([i \in 1..Len(modelNames) |-> modelsGet(sch, modelNames[i])])

(***************************************************************************)
(* The schema of the test suite (data.ts:266-361), and the same schema     *)
(* without unique constraints.                                             *)
(***************************************************************************)
StringType == ColumnType("String", FALSE, FALSE)

OwnerColumns ==
    << Column("id", StringType, None, FALSE, TRUE),
       Column("name", StringType, None, FALSE, FALSE) >>

TodoListColumns ==
    << Column("id", StringType, None, FALSE, TRUE),
       Column("name", StringType, None, FALSE, FALSE),
       Column("ownerId", StringType, None, FALSE, FALSE),
       Column("owner", ColumnType("Owner", FALSE, FALSE),
              Some(Relation(<<"ownerId">>, <<"id">>)), FALSE, FALSE) >>

TestSchema ==
    << Model("Owner", OwnerColumns, Some(Unique(<<"name">>))),
       Model("TodoList", TodoListColumns, Some(Unique(<<"name", "ownerId">>))) >>

PlainSchema ==
    << Model("Owner", OwnerColumns, None),
       Model("TodoList", TodoListColumns, None) >>

Schemas == {TestSchema, PlainSchema}

\* Schemas mergeModel cannot handle: a model none of whose columns is flagged
\* primary_key, and a unique constraint naming a column the model has not.
KeylessSchema ==
    << Model("Owner", OwnerColumns, None),
       Model("TodoList", Tail(TodoListColumns), None) >>

MisnamedSchema ==
    << Model("Owner", OwnerColumns, Some(Unique(<<"name">>))),
       Model("TodoList", TodoListColumns, Some(Unique(<<"title">>))) >>

InvalidSchemas == {KeylessSchema, MisnamedSchema}

(***************************************************************************)
(* SQL values and literals.  A TEXT value is a string; quote(v) is the     *)
(* literal 'v', written <<"'", v, "'">>, and quote(NULL) is NULL.  The     *)
(* keys and names of the model contain no quote character, so the literal  *)
(* '${oldPk}' that mergeModel builds by hand is the same text as quote.    *)
(***************************************************************************)
NULL == "<NULL>"
quote(v) == IF v = NULL THEN <<"NULL">> ELSE <<"'", v, "'">>
Quoted(v) == <<"'", v, "'">>
IsLiteral(e) == Len(e) = 3 \/ Len(e) = 1
Eval(e) == IF Len(e) = 3 THEN e[2] ELSE NULL
NewId(mapTable) == <<mapTable, "new_id">>           \* the expression <map>.new_id

\* crypto.randomUUID(): a key no input row carries and no other call returns.
\* Which key a call returns is immaterial, so the key is named after the one
\* row it is minted for (a row is handled by one callback, merge.ts:375).
randomUUID(table, src, oldPk) == "uuid-" \o table \o "-" \o ToString(src) \o "-" \o oldPk

(***************************************************************************)
(* The columns a table of the schema has in the database (the relation     *)
(* column itself is not stored), and the catalog (sqlite_master) of an     *)
(* input database, as the test suite sets it up (data.ts:366-377,          *)
(* 410-428): per model the table, the automatic index of its primary key   *)
(* (whose sql is NULL) and the unique index.                               *)
(***************************************************************************)
colsToCopy(model, sch) ==
    SelectSeq(model.columns, LAMBDA column : isRegular(column, sch))

names(columns) == [i \in 1..Len(columns) |-> columns[i].name]

pkName(model) == unwrap(primaryKey(model)).name

pkNames(model) == IF isSome(primaryKey(model)) THEN <<pkName(model)>> ELSE <<>>

storedColumns(model, sch) == pkNames(model) \o names(colsToCopy(model, sch))

TableObject(name, columns, pk) ==
    [kind |-> "table", name |-> name, table |-> name, columns |-> columns,
     pk |-> pk, notnull |-> Range(columns)]

IndexObject(kind, name, table, columns) ==
    [kind |-> kind, name |-> name, table |-> table, columns |-> columns,
     pk |-> <<>>, notnull |-> {}]

CreateStmt(object) == [op |-> "CREATE", object |-> object]

NoSql == [op |-> "NULL"]

modelCatalog(model, sch) ==
    << [sql |-> CreateStmt(TableObject(model.name, storedColumns(model, sch),
                                       pkNames(model)))],
       [sql |-> NoSql] >>
    \o (IF /\ isSome(model.unique)
           /\ Range(unwrap(model.unique).columnNames) \subseteq Range(storedColumns(model, sch))
        THEN << [sql |-> CreateStmt(IndexObject("unique", model.name \o "_key", model.name,
                                                unwrap(model.unique).columnNames))] >>
        ELSE <<>>)

sqlite_master(sch) == Flatten([i \in 1..Len(sch) |-> modelCatalog(sch[i], sch)])

(***************************************************************************)
(* data.ts:126-164  MapTable                                               *)
(***************************************************************************)
\* A plausible slip: the indices are created together with the map table.
createIntoSqlIndexed(mapTable) ==
    << CreateStmt(TableObject(mapTable, <<"old_id", "new_id">>, <<>>)),
       CreateStmt(IndexObject("index", mapTable \o "_old_id", mapTable, <<"old_id">>)) >>

createIntoSql(mapTable) ==
    << CreateStmt(TableObject(mapTable, <<"old_id", "new_id">>, <<>>)) >>

createIndicesSql(mapTable) ==
    << CreateStmt(IndexObject("index", mapTable \o "_old_id", mapTable, <<"old_id">>)),
       CreateStmt(IndexObject("index", mapTable \o "_new_id", mapTable, <<"new_id">>)),
       CreateStmt(IndexObject("index", mapTable \o "_new_id_old_id", mapTable,
                              <<"new_id", "old_id">>)) >>

PragmaStmt(safe) == [op |-> "PRAGMA", safe |-> safe]

\* part_002:12-28: the parsed options; --keep-id-maps is false unless given.
Options(keepIdMaps) == [keepIdMaps |-> keepIdMaps]

\* data.ts:144-153  DROP INDEX / TABLE IF EXISTS; merge.ts:178-180  VACUUM
DropStmt(name) == [op |-> "DROP", name |-> name]
VacuumStmt == [op |-> "VACUUM"]

dropFromSql(mapTable) ==
    << DropStmt(mapTable \o "_old_id"), DropStmt(mapTable \o "_new_id"),
       DropStmt(mapTable \o "_new_id_old_id"), DropStmt(mapTable) >>

\* connection.ts:144  BEGIN TRANSACTION; ...; COMMIT;
BeginStmt == [op |-> "BEGIN"]
CommitStmt == [op |-> "COMMIT"]

(***************************************************************************)
(* The destination database, as the SQLite driver behaves: a catalog of    *)
(* objects, the rows of every table, the durability pragmas, whether a     *)
(* transaction is open and how many were committed.  A row is              *)
(* [v |-> column values, src |-> where it comes from]; src is history      *)
(* only, no statement reads it: the connection and key of the input row    *)
(* the statement was generated for and the place that generated it.        *)
(***************************************************************************)
EmptyDb ==
    [catalog |-> {}, tables |-> <<>>, safe |-> TRUE, open |-> FALSE, commits |-> 0,
     vacuums |-> 0, closed |-> FALSE]

HasObject(db, name) == \E o \in db.catalog : o.name = name
TableDef(db, name) == CHOOSE o \in db.catalog : o.kind = "table" /\ o.name = name
Rows(db, name) == IF name \in DOMAIN db.tables THEN db.tables[name] ELSE {}

Failed(db) == [db |-> db, ok |-> FALSE]
Done(db) == [db |-> db, ok |-> TRUE]

RunCreate(db, object) ==
    IF HasObject(db, object.name) \/ (object.kind # "table" /\ ~HasObject(db, object.table))
    THEN {Failed(db)}
    ELSE {Done([db EXCEPT !.catalog = @ \cup {object},
                          !.tables = IF object.kind = "table"
                                     THEN (object.name :> {}) @@ @ ELSE @])}

\* The values the LEFT JOINs of an INSERT can deliver: for every joined map table
\* the new_id of a row whose old_id equals the literal, NULL if there is none.
\* LIMIT 1 keeps one combination; SQL does not say which.
joinValues(db, join) ==
    LET hits == {m.v.new_id : m \in {x \in Rows(db, join.map) :
                                        /\ Eval(join.old) # NULL
                                        /\ x.v.old_id = Eval(join.old)}}
    IN IF hits = {} THEN {NULL} ELSE hits

joinIndex(stmt, mapTable) ==
    CHOOSE i \in 1..Len(stmt.joins) : stmt.joins[i].map = mapTable

insertedRow(def, stmt, picked) ==
    [c \in Range(def.columns) |->
        IF includes(stmt.columns, c)
        THEN LET e == stmt.values[IndexOf(stmt.columns, c)]
             IN IF IsLiteral(e) THEN Eval(e) ELSE picked[joinIndex(stmt, e[1])]
        ELSE NULL]

violates(db, def, v) ==
    \/ \E c \in def.notnull : v[c] = NULL
    \/ def.pk # <<>> /\ \E d \in Rows(db, def.name) : d.v[def.pk[1]] = v[def.pk[1]]
    \/ \E u \in db.catalog :
          /\ u.kind = "unique" /\ u.table = def.name
          /\ \A c \in Range(u.columns) : v[c] # NULL
          /\ \E d \in Rows(db, def.name) : \A c \in Range(u.columns) : d.v[c] = v[c]

RunInsert(db, stmt) ==
    IF ~HasObject(db, stmt.table) THEN {Failed(db)}
    ELSE LET def == TableDef(db, stmt.table)
             picks == {p \in [1..Len(stmt.joins) -> UNION {joinValues(db, stmt.joins[i]) :
                                                              i \in 1..Len(stmt.joins)}] :
                          \A i \in 1..Len(stmt.joins) : p[i] \in joinValues(db, stmt.joins[i])}
         IN { LET v == insertedRow(def, stmt, p)
              IN IF violates(db, def, v) THEN Failed(db)
                 ELSE Done([db EXCEPT !.tables[stmt.table] = @ \cup {[v |-> v, src |-> stmt.src]}])
              : p \in picks }

\* DROP ... IF EXISTS: the object goes, a table with its rows and indices.
RunDrop(db, name) ==
    [db EXCEPT !.catalog = {o \in @ : o.name # name /\ o.table # name},
               !.tables = [t \in DOMAIN @ \ {name} |-> @[t]]]

RunStmt(db, stmt) ==
    CASE stmt.op = "PRAGMA" -> {Done([db EXCEPT !.safe = stmt.safe])}
      [] stmt.op = "DROP" -> {Done(RunDrop(db, stmt.name))}
      [] stmt.op = "VACUUM" -> {Done([db EXCEPT !.vacuums = @ + 1])}
      [] stmt.op = "CREATE" -> RunCreate(db, stmt.object)
      [] stmt.op = "INSERT" -> RunInsert(db, stmt)
      [] stmt.op = "BEGIN" -> {IF db.open THEN Failed(db) ELSE Done([db EXCEPT !.open = TRUE])}
      [] stmt.op = "COMMIT" -> {IF db.open
                                THEN Done([db EXCEPT !.open = FALSE, !.commits = @ + 1])
                                ELSE Failed(db)}

\* db.exec of several statements: one after the other, stopping at the first error.
RECURSIVE RunExec(_, _)
RunExec(db, stmts) ==
    IF db.closed THEN {Failed(db)}
    ELSE IF stmts = <<>> THEN {Done(db)}
    ELSE UNION { IF r.ok THEN RunExec(r.db, Tail(stmts)) ELSE {r} :
                 r \in RunStmt(db, Head(stmts)) }

\* db.get of the existence check: the quoted key of one matching row, if any.
\* Every join of the check is on another map table.
probeMatches(db, probe) ==
    {d \in Rows(db, probe.table) :
        /\ \A i \in 1..Len(probe.wheres) :
              probe.wheres[i].kind = "col" =>
                 /\ Eval(probe.args[probe.wheres[i].ph]) # NULL
                 /\ d.v[probe.wheres[i].name] = Eval(probe.args[probe.wheres[i].ph])
        /\ \A k \in 1..Len(probe.joins) :
              \E m \in Rows(db, probe.joins[k].map) :
                 /\ d.v[probe.joins[k].key] = m.v.new_id
                 /\ \A i \in 1..Len(probe.wheres) :
                       (probe.wheres[i].kind = "map" /\ probe.wheres[i].name = probe.joins[k].map)
                          => m.v.old_id = Eval(probe.args[probe.wheres[i].ph])}

RunGet(db, probe) ==
    LET hits == probeMatches(db, probe)
    IN IF hits = {} THEN {None} ELSE {Some(quote(d.v[probe.pk])) : d \in hits}

(***************************************************************************)
(* connection.ts:112-150  InsertManager.  flush hands the batch             *)
(* "BEGIN TRANSACTION; s1; ...; COMMIT;" to the connection; the caller      *)
(* waits for it.  batch is None when nothing was handed over.               *)
(***************************************************************************)
InsertManager(threshold) == [statements |-> <<>>, count |-> 0, threshold |-> threshold]

\* A plausible slip: flush forgets the statements it was holding.
flushLosesBatch(ins) ==
    [ins |-> [ins EXCEPT !.statements = <<>>, !.count = 0],
     batch |-> Some(<<BeginStmt, CommitStmt>>),
     count |-> ins.count]

\* A plausible slip: the buffer is cleared only once the batch has been
\* executed, so that a batch that failed stays in it.
flushKeepsBatch(ins) ==
    [ins |-> ins,
     batch |-> Some(<<BeginStmt>> \o ins.statements \o <<CommitStmt>>),
     count |-> ins.count]

flush(ins) ==
    [ins |-> [ins EXCEPT !.statements = <<>>, !.count = 0],
     batch |-> Some(<<BeginStmt>> \o ins.statements \o <<CommitStmt>>),
     count |-> ins.count]

\* A plausible slip: the buffer is flushed only when it exceeds the threshold.
maybeFlushLate(ins) ==
    IF Len(ins.statements) > ins.threshold THEN flush(ins)
    ELSE [ins |-> ins, batch |-> None, count |-> 0]

maybeFlush(ins) ==
    IF Len(ins.statements) >= ins.threshold THEN flush(ins)
    ELSE [ins |-> ins, batch |-> None, count |-> 0]

insert(ins, statement) ==
    maybeFlush([ins EXCEPT !.statements = Append(@, statement), !.count = @ + 1])

\* A plausible slip: a supporting statement is counted like a regular one.
insertSupportingCounted(ins, statement) ==
    maybeFlush([ins EXCEPT !.statements = Append(@, statement), !.count = @ + 1])

insertSupporting(ins, statement) ==
    maybeFlush([ins EXCEPT !.statements = Append(@, statement)])

(***************************************************************************)
(* Requests on the destination connection.                                 *)
(***************************************************************************)
\* connection.ts:8-14, 46-49, 75-86: an error of the driver, caught or handed on.
DriverError(on, owner) == [on |-> on, owner |-> owner, stmts |-> <<>>]

\* A plausible slip: the result of exec is dropped, as Connection.exec's
\* callers may do.
execIgnoresError(r) == "returned"

\* connection.ts:16-18  execOrError: (await this.exec(sql)).unwrap()
execOrError(r) == IF r.ok THEN "returned" ELSE "thrown"

\* The errors reported once the driver has answered the request op with r.
isBatch(op) == op.stmts # <<>> /\ Head(op.stmts) = BeginStmt
reported(r, op) ==
    IF r.ok THEN errors
    ELSE errors \cup {[DriverError(IF isBatch(op) THEN "flush" ELSE "exec", op.owner)
                           EXCEPT !.stmts = op.stmts]}

NoProbe == [table |-> "", pk |-> "", joins |-> <<>>, wheres |-> <<>>, args |-> <<>>]
\* count is what the call that issued the request returns once the driver has
\* completed it: the count of a flush (connection.ts:146-149), 0 otherwise.
ExecOp(stmts, owner, count) ==
    [kind |-> "exec", stmts |-> stmts, probe |-> NoProbe, owner |-> owner, count |-> count]
GetOp(probe, owner) ==
    [kind |-> "get", stmts |-> <<>>, probe |-> probe, owner |-> owner, count |-> 0]
\* data.ts:113  SELECT COUNT(*) FROM pragma_foreign_key_check('<model>')
CheckOp(model) ==
    [kind |-> "check", stmts |-> <<>>, probe |-> [NoProbe EXCEPT !.table = model.name],
     owner |-> "main", count |-> 0]

(***************************************************************************)
(* progress.ts:24-46  ConsoleProgress.                                     *)
(***************************************************************************)
ProgressIndicator(total_rows) == [count |-> 0, total |-> total_rows]
inc(p, delta) == [p EXCEPT !.count = @ + delta]
finish(p) == [p EXCEPT !.count = p.total]

(***************************************************************************)
(* data.ts:110-123  verifyIntegrity, and the driver's answer to its query: *)
(* one row whose only column is named after the expression selected.       *)
(***************************************************************************)
\* pragma_foreign_key_check: the rows of the model's table holding, in a foreign
\* key column, a value that is no key of the table referred to.
foreign_key_check(db, model, sch) ==
    Cardinality({ <<d, i>> \in Rows(db, model.name) \X (1..Len(model.columns)) :
        /\ isSome(getRelatedColumn(model.columns[i], model))
        /\ d.v[model.columns[i].name] # NULL
        /\ LET related == unwrap(getRelatedColumn(model.columns[i], model))
               key == unwrap(related.relation).references[1]
           IN ~\E parent \in Rows(db, related.ty.name) :
                  parent.v[key] = d.v[model.columns[i].name] })

checkRow(k) == [c \in {"COUNT(*)"} |-> k]

\* row.key in JavaScript: undefined (None) when the row has no such property.
prop(row, key) == IF key \in DOMAIN row THEN Some(row[key]) ELSE None

\* a > n in JavaScript: false when a is undefined.
greater(a, n) == isSome(a) /\ unwrap(a) > n

\* A plausible reading: the count is taken from the column the query returns.
verifyIntegrityByColumn(row) ==
    LET count == prop(row, "COUNT(*)")
    IN [isErr |-> greater(count, 0), value |-> count]

\* data.ts:114-122: Err(count) when check...count > 0, Ok otherwise.
verifyIntegrity(row) ==
    LET count == prop(row, "count")
    IN [isErr |-> greater(count, 0), value |-> count]

\* part_002:55  merge(inputPaths, options.outputPath, options.minInserts): the
\* parameter keepIdMaps of merge takes its default (merge.ts:100).
keepIdMaps(opts) == FALSE

\* merge.ts:122
integrityLine(model, k) == <<"Table", model.name, "has", k, "foreign key integrity problems">>

(***************************************************************************)
(* merge.ts:186-274  what mergeModel compiles before it reads a row.       *)
(***************************************************************************)
\* merge.ts:216-222: the row the select query delivers.
selectRow(model, sch, r) ==
    [c \in {"unquotedPk"} \cup Range(storedColumns(model, sch)) |->
        IF c = "unquotedPk" THEN r[pkName(model)] ELSE quote(r[c])]

\* merge.ts:233-274: the existence check for the model's unique index.
RECURSIVE checkParts(_, _, _)
checkParts(model, idx, acc) ==
    IF idx > Len(unwrap(model.unique).columnNames) THEN acc
    ELSE LET name == unwrap(model.unique).columnNames[idx]
             col == unwrap(getCol(model, name))
             related == getRelatedColumn(col, model)
         IN checkParts(model, idx + 1,
              IF isSome(related)
              THEN [joins |-> Append(acc.joins,
                                     [map |-> MapTableName(unwrap(related).ty.name),
                                      key |-> col.name]),
                    wheres |-> Append(acc.wheres,
                                      [kind |-> "map",
                                       name |-> MapTableName(unwrap(related).ty.name),
                                       ph |-> idx])]
              ELSE [joins |-> acc.joins,
                    wheres |-> Append(acc.wheres, [kind |-> "col", name |-> name, ph |-> idx])])

checkSqlTemplate(model) ==
    IF isSome(model.unique)
    THEN LET parts == checkParts(model, 1, [joins |-> <<>>, wheres |-> <<>>])
         IN Some([table |-> model.name, pk |-> pkName(model),
                  joins |-> parts.joins, wheres |-> parts.wheres, args |-> <<>>])
    ELSE None

\* merge.ts:341-347: placeholder ?i takes the row's value of the i-th unique column.
checkSql(model, row) ==
    [unwrap(checkSqlTemplate(model)) EXCEPT
        !.args = [idx \in 1..Len(unwrap(model.unique).columnNames) |->
                     row[unwrap(model.unique).columnNames[idx]]]]

\* merge.ts:190, 240: the unwraps of mergeModel that throw on a None.
compiles(model) ==
    /\ isSome(primaryKey(model))
    /\ isSome(model.unique) =>
          \A idx \in 1..Len(unwrap(model.unique).columnNames) :
             isSome(getCol(model, unwrap(model.unique).columnNames[idx]))

\* A plausible slip: the count is compared with >=, so that a later connection
\* with as many rows takes over.
RECURSIVE pickPrimaryLatest(_, _, _, _)
pickPrimaryLatest(counts, i, primary, primaryCount) ==
    IF i > Len(counts) THEN primary
    ELSE IF counts[i] >= primaryCount THEN pickPrimaryLatest(counts, i + 1, i, counts[i])
    ELSE pickPrimaryLatest(counts, i + 1, primary, primaryCount)

\* merge.ts:276-305: the primary is the first connection with the largest count.
RECURSIVE pickPrimary(_, _, _, _)
pickPrimary(counts, i, primary, primaryCount) ==
    IF i > Len(counts) THEN primary
    ELSE IF counts[i] > primaryCount THEN pickPrimary(counts, i + 1, i, counts[i])
    ELSE pickPrimary(counts, i + 1, primary, primaryCount)

\* A plausible slip: the connections are streamed in input order, the primary
\* where it stands.
sortedConnectionsInputOrder(n, primary) == [i \in 1..n |-> i]

\* merge.ts:294-305: the primary first, then the others in input order.

sortedConnections(n, primary) ==
    <<primary>> \o SelectSeq([i \in 1..n |-> i], LAMBDA conn : conn # primary)

(***************************************************************************)
(* merge.ts:317-429  the row callback, cut at its awaits on the            *)
(* destination.  Each piece yields the InsertManager it leaves, the        *)
(* requests it issues, the callback if it is still waiting, and the        *)
(* number of keys minted.                                                   *)
(***************************************************************************)
Callback(id, at, row, src, isPrimary, newPk) ==
    [id |-> id, pc |-> at, row |-> row, src |-> src, isPrimary |-> isPrimary, newPk |-> newPk]

Effect(ins, out, cb, n) == [ins |-> ins, out |-> out, cb |-> cb, minted |-> n]

Origin(conn, pk, how) == [conn |-> conn, pk |-> pk, how |-> how]

\* A plausible slip: one map table, that of the first model, serves every model.
idMapInsertShared(model, oldPk, newId, src) ==
    [op |-> "INSERT", table |-> order[1].mapTable, columns |-> <<"old_id", "new_id">>,
     values |-> <<Quoted(oldPk), newId>>, joins |-> <<>>, src |-> src]

idMapInsert(model, oldPk, newId, src) ==
    [op |-> "INSERT", table |-> model.mapTable, columns |-> <<"old_id", "new_id">>,
     values |-> <<Quoted(oldPk), newId>>, joins |-> <<>>, src |-> src]

\* A plausible slip: a foreign key is copied like any other column.
RECURSIVE insertPartsCopiesKeys(_, _, _, _, _)
insertPartsCopiesKeys(model, sch, row, i, acc) ==
    IF i > Len(model.columns) THEN acc
    ELSE LET column == model.columns[i]
         IN insertPartsCopiesKeys(model, sch, row, i + 1,
              IF isRegular(column, sch)
              THEN [values |-> Append(acc.values, row[column.name]),
                    columns |-> Append(acc.columns, column.name),
                    joins |-> acc.joins]
              ELSE acc)

\* merge.ts:382-408: the columns, values and joins of the INSERT.
RECURSIVE insertParts(_, _, _, _, _)
insertParts(model, sch, row, i, acc) ==
    IF i > Len(model.columns) THEN acc
    ELSE LET column == model.columns[i]
             related == getRelatedColumn(column, model)
         IN insertParts(model, sch, row, i + 1,
              IF isSome(related)
              THEN LET map == MapTableName(unwrap(related).ty.name)
                   IN [values |-> Append(acc.values, NewId(map)),
                       columns |-> Append(acc.columns, column.name),
                       joins |-> Append(acc.joins, [map |-> map, old |-> row[column.name]])]
              ELSE IF isRegular(column, sch)
              THEN [values |-> Append(acc.values, row[column.name]),
                    columns |-> Append(acc.columns, column.name),
                    joins |-> acc.joins]
              ELSE acc)

insert_sql(model, sch, row, newPk, src) ==
    LET parts == insertParts(model, sch, row, 1,
                             [values |-> <<Quoted(newPk)>>, columns |-> <<pkName(model)>>,
                              joins |-> <<>>])
    IN [op |-> "INSERT", table |-> model.name, columns |-> parts.columns,
        values |-> parts.values, joins |-> parts.joins, src |-> src]

\* A plausible slip: the map row of an inserted row is forgotten.
mapStepSkipped(model, cb, ins, newPk, n) == Effect(ins, <<>>, None, n)

\* merge.ts:422-428: the map row of an inserted row, a supporting insert.
mapStep(model, cb, ins, newPk, n) ==
    LET res == insertSupporting(ins, idMapInsert(model, cb.row.unquotedPk, Quoted(newPk),
                                             Origin(cb.src, cb.row.unquotedPk, "inserted")))
    IN IF isSome(res.batch)
       THEN Effect(res.ins, <<ExecOp(unwrap(res.batch), cb.id, res.count)>>,
                   Some([cb EXCEPT !.pc = "flushC"]), n)
       ELSE Effect(res.ins, <<>>, None, n)

\* A plausible slip: a secondary row keeps its key too.
newPkKeepsOld(model, cb) == cb.row.unquotedPk

\* A plausible slip: every row gets a new key, the primary's rows too.
newPkMinted(model, cb) == randomUUID(model.name, cb.src, cb.row.unquotedPk)

\* merge.ts:375
newPkFor(model, cb) ==
    IF cb.isPrimary THEN cb.row.unquotedPk
    ELSE randomUUID(model.name, cb.src, cb.row.unquotedPk)

\* merge.ts:372-420: the row is inserted under newPk.
insertStep(model, sch, cb, ins, n) ==
    LET newPk == newPkFor(model, cb)
        n1 == IF cb.isPrimary THEN n ELSE n + 1
        res == insert(ins, insert_sql(model, sch, cb.row, newPk,
                                      Origin(cb.src, cb.row.unquotedPk, "inserted")))
    IN IF isSome(res.batch)
       THEN Effect(res.ins, <<ExecOp(unwrap(res.batch), cb.id, res.count)>>,
                   Some([cb EXCEPT !.pc = "flushB", !.newPk = newPk]), n1)
       ELSE mapStep(model, cb, res.ins, newPk, n1)

\* A plausible slip: the map row of a row that exists already keeps the row's
\* own key instead of the key found in the destination.
existingStepKeepsKey(model, cb, ins, existingId, n) ==
    LET res == insert(ins, idMapInsert(model, cb.row.unquotedPk, Quoted(cb.row.unquotedPk),
                                       Origin(cb.src, cb.row.unquotedPk, "existing")))
    IN IF isSome(res.batch)
       THEN Effect(res.ins, <<ExecOp(unwrap(res.batch), cb.id, res.count)>>,
                   Some([cb EXCEPT !.pc = "flushA"]), n)
       ELSE Effect(res.ins, <<>>, None, n)

\* A plausible slip: the map row of a row that exists already is handed to
\* insertSupporting, like every other map row.
existingStepSupporting(model, cb, ins, existingId, n) ==
    LET res == insertSupporting(ins, idMapInsert(model, cb.row.unquotedPk, existingId,
                                                 Origin(cb.src, cb.row.unquotedPk, "existing")))
    IN IF isSome(res.batch)
       THEN Effect(res.ins, <<ExecOp(unwrap(res.batch), cb.id, res.count)>>,
                   Some([cb EXCEPT !.pc = "flushA"]), n)
       ELSE Effect(res.ins, <<>>, None, n)

\* merge.ts:359-370: the row exists already; only its map row is inserted.
existingStep(model, cb, ins, existingId, n) ==
    LET res == insert(ins, idMapInsert(model, cb.row.unquotedPk, existingId,
                                       Origin(cb.src, cb.row.unquotedPk, "existing")))
    IN IF isSome(res.batch)
       THEN Effect(res.ins, <<ExecOp(unwrap(res.batch), cb.id, res.count)>>,
                   Some([cb EXCEPT !.pc = "flushA"]), n)
       ELSE Effect(res.ins, <<>>, None, n)

\* A plausible slip: the rows of the primary are checked too.
needsCheckAlways(model, isPrimary) == isSome(checkSqlTemplate(model))

\* merge.ts:329-330: which rows are checked against the destination.
needsCheck(model, isPrimary) == ~isPrimary /\ isSome(checkSqlTemplate(model))

\* merge.ts:317-356: the callback up to its first await.
callbackStart(model, sch, r, src, isPrimary, ins, n) ==
    LET row == selectRow(model, sch, r)
        cb == Callback(row.unquotedPk, "probe", row, src, isPrimary, "")
    IN IF needsCheck(model, isPrimary)
       THEN Effect(ins, <<GetOp(checkSql(model, row), cb.id)>>, Some(cb), n)
       ELSE insertStep(model, sch, cb, ins, n)

(***************************************************************************)
(* The input databases.  Every input was created from the schema, so its   *)
(* tables obey the primary key and the unique index.  A table is read      *)
(* when mergeModel first queries it (its COUNT), and that is where the     *)
(* model draws its rows.                                                   *)
(***************************************************************************)
OwnerIds == {"a", "b"}
OwnerNames == {"Woody", "Jessie"}
TodoListIds == {"t", "s"}
TodoListNames == {"Chores"}

InputRows(model) ==
    IF model.name = "Owner" THEN [id : OwnerIds, name : OwnerNames]
    ELSE IF model.name = "TodoList"
    THEN [id : TodoListIds, name : TodoListNames, ownerId : OwnerIds]
    ELSE {}

validTable(model, t) ==
    /\ \A r1, r2 \in t : r1[pkName(model)] = r2[pkName(model)] => r1 = r2
    /\ isSome(model.unique) =>
          \A r1, r2 \in t :
             (\A c \in Range(unwrap(model.unique).columnNames) : r1[c] = r2[c]) => r1 = r2

InputTables(model) == {t \in SUBSET InputRows(model) : validTable(model, t)}

RECURSIVE SumCard(_)
SumCard(f) == IF DOMAIN f = {} THEN 0
              ELSE LET x == CHOOSE y \in DOMAIN f : TRUE
                   IN Cardinality(f[x]) + SumCard([y \in DOMAIN f \ {x} |-> f[y]])

RECURSIVE rowsRead(_, _)
rowsRead(srcs, i) == IF i > Len(srcs) THEN 0 ELSE SumCard(srcs[i]) + rowsRead(srcs, i + 1)

InputChoices(model, srcs) ==
    {tabs \in [1..Len(srcs) -> InputTables(model)] :
        rowsRead(srcs, 1) + SumCard(tabs) <= MaxRows}

pkOfRow(model, r) == r[pkName(model)]

SourceRows(s, name) == IF name \in DOMAIN sources[s] THEN sources[s][name] ELSE {}

(***************************************************************************)
(* connection.ts:20-61  Connection.each: the queue of callback promises,   *)
(* newest first; finished; whether the current readyPromise is resolved    *)
(* (readyResolve always belongs to the promise the worker awaits next:     *)
(* both are assigned in one executor call, connection.ts:37-40); where the *)
(* worker is suspended and on which callback promise.  called lists the    *)
(* rows the callback was called for.                                       *)
(***************************************************************************)
EachLocals ==
    [queue |-> <<>>, finished |-> FALSE, ready |-> FALSE, worker |-> "ready", awaited |-> 0,
     called |-> <<>>]

\* A plausible slip: the row handler queues the promise and wakes nobody.
unshiftAsleep(e, id) ==
    [e EXCEPT !.queue = <<id>> \o @, !.called = Append(@, id)]

\* connection.ts:46-54  queue.unshift(callback(...)); readyResolve()
unshift(e, id) ==
    [e EXCEPT !.queue = <<id>> \o @, !.called = Append(@, id), !.ready = TRUE]

\* connection.ts:31-42  the worker between two awaits: it pops the oldest
\* promise and awaits it; with an empty queue it ends if finished and makes a
\* new readyPromise to await otherwise.
drain(e) ==
    IF e.queue # <<>>
    THEN [e EXCEPT !.worker = "popped", !.awaited = e.queue[Len(e.queue)],
                   !.queue = SubSeq(e.queue, 1, Len(e.queue) - 1)]
    ELSE IF e.finished
    THEN [e EXCEPT !.worker = "returned", !.awaited = 0]
    ELSE [e EXCEPT !.worker = "ready", !.awaited = 0, !.ready = FALSE]

(***************************************************************************)
(* State and actions of prismerge.                                         *)
(***************************************************************************)
Cur == plan[Len(plan)]

Init ==
    /\ schema \in Schemas
    /\ minInserts \in 1..MaxInserts
    /\ sources \in {[s \in 1..n |-> <<>>] : n \in 1..MaxSources}
    /\ order = <<>>
    /\ pc = "start"
    /\ mi = 0
    /\ dest = EmptyDb
    /\ inflight = <<>>
    /\ inserter = InsertManager(minInserts)
    /\ plan = <<>>
    /\ todo = <<>>
    /\ cbs = {}
    /\ minted = 0
    /\ progress = ProgressIndicator(0)
    /\ errors = {}
    /\ options = Options(FALSE)
    /\ console = <<>>
    /\ each = EachLocals

Inputs == <<schema, minInserts, options>>

\* merge.ts:139-151  prismerge sorts the models and switches the pragmas off.
Prismerge ==
    /\ pc = "start"
    /\ order' = sortedModels(schema)
    /\ inflight' = Append(inflight, ExecOp(<<PragmaStmt(FALSE)>>, "main", 0))
    /\ pc' = "pragmaOff"
    /\ UNCHANGED <<Inputs, each, console, errors, sources, mi, dest, inserter, plan, todo, cbs, minted, progress>>

\* The driver completes the oldest request of the connection; this one was
\* awaited by prismerge / mergeModel itself and succeeded.
MainExec(at) ==
    /\ pc = at
    /\ inflight # <<>>
    /\ Head(inflight).kind = "exec"
    /\ Head(inflight).owner = "main"
    /\ \E r \in RunExec(dest, Head(inflight).stmts) :
          /\ execOrError(r) = "returned"
          /\ dest' = r.db
          /\ errors' = reported(r, Head(inflight))

\* merge.ts:156  db.each on the first connection's sqlite_master starts.
PragmaOffDone ==
    /\ MainExec("pragmaOff")
    /\ inflight' = Tail(inflight)
    /\ pc' = "ddl"
    /\ todo' = sqlite_master(schema)
    /\ UNCHANGED <<Inputs, each, console, sources, order, mi, inserter, plan, cbs, minted, progress>>

\* merge.ts:156-162 with connection.ts:46-54: the driver delivers a catalog row;
\* the callback is called and runs up to its await of execOrError.
DeliverCatalogRow ==
    /\ pc = "ddl"
    /\ todo # <<>>
    /\ todo' = Tail(todo)
    /\ LET row == Head(todo)
       IN IF row.sql.op # "NULL"
          THEN /\ inflight' = Append(inflight, ExecOp(<<row.sql>>, row.sql.object.name, 0))
               /\ cbs' = cbs \cup {Callback(row.sql.object.name, "ddl", <<>>, 1, FALSE, "")}
          ELSE UNCHANGED <<inflight, cbs>>
    /\ UNCHANGED <<Inputs, each, console, errors, sources, order, pc, mi, dest, inserter, plan, minted, progress>>

\* merge.ts:165-167 and 169-174: the next mergeModel starts (187: createInto),
\* or, after the last one, the pragmas are switched back on.
beginModel(k, queue) ==
    IF k <= Len(order)
    THEN /\ mi' = k
         /\ inflight' = Append(queue, ExecOp(createIntoSql(order[k].mapTable), "main", 0))
         /\ pc' = "createMap"
    ELSE /\ mi' = k
         /\ inflight' = Append(queue, ExecOp(<<PragmaStmt(TRUE)>>, "main", 0))
         /\ pc' = "pragmaOn"

\* connection.ts:56-60: db.each has delivered every row and the worker has
\* awaited every callback, so each() returns to prismerge.
CatalogDone ==
    /\ pc = "ddl"
    /\ todo = <<>>
    /\ cbs = {}
    /\ beginModel(1, inflight)
    /\ todo' = {}
    /\ UNCHANGED <<Inputs, each, console, errors, sources, order, dest, inserter, plan, cbs, minted, progress>>

\* merge.ts:189-317: after createInto, mergeModel counts the rows of every
\* connection, picks the primary and starts streaming it.
CreateMapDone ==
    /\ MainExec("createMap")
    /\ compiles(order[mi])
    /\ inflight' = Tail(inflight)
    /\ \E tabs \in InputChoices(order[mi], sources) :
          LET counts == [s \in 1..Len(sources) |-> Cardinality(tabs[s])]
              primary == pickPrimary(counts, 1, 1, 0)
              sorted == sortedConnections(Len(sources), primary)
          IN /\ sources' = [s \in 1..Len(sources) |-> (order[mi].name :> tabs[s]) @@ sources[s]]
             /\ plan' = Append(plan, [primary |-> primary, sorted |-> sorted, ci |-> 1])
             /\ todo' = tabs[sorted[1]]
             /\ progress' = ProgressIndicator(SumCard(tabs))
    /\ inserter' = InsertManager(minInserts)
    /\ pc' = "stream"
    /\ UNCHANGED <<Inputs, each, console, order, mi, cbs, minted>>

apply(eff, queue, others) ==
    /\ inserter' = eff.ins
    /\ inflight' = queue \o eff.out
    /\ cbs' = others \cup (IF isSome(eff.cb) THEN {unwrap(eff.cb)} ELSE {})
    /\ minted' = eff.minted

\* merge.ts:317 with connection.ts:46-54: the driver delivers a row of the
\* connection being streamed; its callback is called at once.
DeliverRow ==
    /\ pc = "stream"
    /\ \E r \in todo :
          /\ todo' = todo \ {r}
          /\ LET src == Cur.sorted[Cur.ci]
             IN apply(callbackStart(order[mi], schema, r, src, src = Cur.primary,
                                    inserter, minted),
                      inflight, cbs)
    /\ UNCHANGED <<Inputs, each, console, errors, sources, order, pc, mi, dest, plan, progress>>

owner(op) == CHOOSE cb \in cbs : cb.id = op.owner

\* merge.ts:349-375: the existence check returns to the callback that issued it.
ProbeDone ==
    /\ inflight # <<>>
    /\ Head(inflight).kind = "get"
    /\ LET cb == owner(Head(inflight))
       IN \E res \in RunGet(dest, Head(inflight).probe) :
             apply(IF isSome(res)
                   THEN existingStep(order[mi], cb, inserter, unwrap(res), minted)
                   ELSE insertStep(order[mi], schema, cb, inserter, minted),
                   Tail(inflight), cbs \ {cb})
    /\ UNCHANGED <<Inputs, each, console, errors, sources, order, pc, mi, dest, plan, todo, progress>>

\* A statement or batch issued by a callback has been executed: the callback
\* goes on (merge.ts:420-428) or settles (merge.ts:160, 367-369, 428).
CallbackExecDone ==
    /\ inflight # <<>>
    /\ Head(inflight).kind = "exec"
    /\ Head(inflight).owner # "main"
    /\ \E r \in RunExec(dest, Head(inflight).stmts) :
          /\ execOrError(r) = "returned"
          /\ dest' = r.db
          /\ errors' = reported(r, Head(inflight))
    /\ LET cb == owner(Head(inflight))
       IN IF cb.pc = "flushB"
          THEN apply(mapStep(order[mi], cb, inserter, cb.newPk, minted),
                     Tail(inflight), cbs \ {cb})
          ELSE apply(Effect(inserter, <<>>, None, minted), Tail(inflight), cbs \ {cb})
    /\ progress' = inc(progress, Head(inflight).count)
    /\ UNCHANGED <<Inputs, each, console, sources, order, pc, mi, plan, todo>>

\* merge.ts:429-432: each() has returned (every row delivered, every callback
\* settled) and the lingering statements are flushed.
EachDone ==
    /\ pc = "stream"
    /\ todo = {}
    /\ cbs = {}
    /\ LET res == flush(inserter)
       IN /\ inserter' = res.ins
          /\ inflight' = Append(inflight, ExecOp(unwrap(res.batch), "main", res.count))
    /\ pc' = "flushSrc"
    /\ UNCHANGED <<Inputs, each, console, errors, sources, order, mi, dest, plan, todo, cbs, minted, progress>>

\* merge.ts:312-317: the next connection is streamed.
NextConnection ==
    /\ MainExec("flushSrc")
    /\ Cur.ci < Len(Cur.sorted)
    /\ inflight' = Tail(inflight)
    /\ plan' = [plan EXCEPT ![Len(plan)].ci = @ + 1]
    /\ todo' = SourceRows(Cur.sorted[Cur.ci + 1], order[mi].name)
    /\ pc' = "stream"
    /\ progress' = inc(progress, Head(inflight).count)
    /\ UNCHANGED <<Inputs, each, console, sources, order, mi, inserter, cbs, minted>>

\* merge.ts:435: after the last connection, flush once more.
LastFlush ==
    /\ MainExec("flushSrc")
    /\ Cur.ci = Len(Cur.sorted)
    /\ LET res == flush(inserter)
       IN /\ inserter' = res.ins
          /\ inflight' = Append(Tail(inflight), ExecOp(unwrap(res.batch), "main", res.count))
    /\ pc' = "flushFinal"
    /\ progress' = inc(progress, Head(inflight).count)
    /\ UNCHANGED <<Inputs, each, console, sources, order, mi, plan, todo, cbs, minted>>

\* merge.ts:440: the indices of the map table.
LastFlushDone ==
    /\ MainExec("flushFinal")
    /\ inflight' = Append(Tail(inflight), ExecOp(createIndicesSql(order[mi].mapTable), "main", 0))
    /\ pc' = "indices"
    /\ progress' = inc(progress, Head(inflight).count)
    /\ UNCHANGED <<Inputs, each, console, sources, order, mi, inserter, plan, todo, cbs, minted>>

\* merge.ts:442-443, 165-174: mergeModel returns.
IndicesDone ==
    /\ MainExec("indices")
    /\ beginModel(mi + 1, Tail(inflight))
    /\ progress' = finish(progress)
    /\ UNCHANGED <<Inputs, each, console, sources, order, inserter, plan, todo, cbs, minted>>

\* merge.ts:170-175: prismerge returns.
PragmaOnDone ==
    /\ MainExec("pragmaOn")
    /\ inflight' = Tail(inflight)
    /\ pc' = "done"
    /\ UNCHANGED <<Inputs, each, console, sources, order, mi, inserter, plan, todo, cbs, minted, progress>>

\* merge.ts:116-119: back in merge, the integrity of the first model is checked.
Verify ==
    /\ pc = "done"
    /\ mi' = 1
    /\ inflight' = Append(inflight, CheckOp(schema[1]))
    /\ pc' = "verify"
    /\ UNCHANGED <<Inputs, each, console, sources, order, dest, inserter, plan, todo, cbs, minted,
                   progress, errors>>

\* connection.ts:63-65: the request to close the database.
CloseOp ==
    [kind |-> "close", stmts |-> <<>>, probe |-> NoProbe, owner |-> "main", count |-> 0]

\* A plausible slip: the connection is closed before vacuum is called.
closeAndVacuum == <<CloseOp, ExecOp(<<VacuumStmt>>, "main", 0)>>

\* merge.ts:133-136: vacuum(merged) hands VACUUM to the driver and is not
\* awaited; merged.close() follows at once and is awaited.  The driver takes
\* the requests of a connection in the order they were made.
vacuumAndClose == <<ExecOp(<<VacuumStmt>>, "main", 0), CloseOp>>

\* merge.ts:126-136: the map tables are dropped from k on, unless they are
\* kept; then vacuum is called (not awaited) and the connection closed.
dropFrom(k, queue) ==
    IF ~keepIdMaps(options) /\ k <= Len(schema)
    THEN /\ mi' = k
         /\ inflight' = Append(queue, ExecOp(dropFromSql(schema[k].mapTable), "main", 0))
         /\ pc' = "drop"
    ELSE /\ mi' = k
         /\ inflight' = queue \o vacuumAndClose
         /\ pc' = "close"

\* merge.ts:119-123 with data.ts:110-123: the check has answered; a line is
\* written if verifyIntegrity returns Err, and the loop goes on.
VerifyDone ==
    /\ pc = "verify"
    /\ inflight # <<>>
    /\ Head(inflight).kind = "check"
    /\ LET integrity == verifyIntegrity(checkRow(foreign_key_check(dest, schema[mi], schema)))
       IN console' = IF integrity.isErr
                     THEN Append(console, integrityLine(schema[mi], unwrap(integrity.value)))
                     ELSE console
    /\ IF mi < Len(schema)
       THEN /\ mi' = mi + 1
            /\ inflight' = Append(Tail(inflight), CheckOp(schema[mi + 1]))
            /\ pc' = "verify"
       ELSE dropFrom(1, Tail(inflight))
    /\ UNCHANGED <<Inputs, each, sources, order, dest, inserter, plan, todo, cbs, minted, progress,
                   errors>>

\* merge.ts:128-130: a map table is gone.
DropDone ==
    /\ MainExec("drop")
    /\ dropFrom(mi + 1, Tail(inflight))
    /\ UNCHANGED <<Inputs, each, console, sources, order, inserter, plan, todo, cbs, minted, progress>>

\* merge.ts:178-180: VACUUM has been executed; nobody waits for it.
VacuumDone ==
    /\ MainExec("close")
    /\ inflight' = Tail(inflight)
    /\ UNCHANGED <<Inputs, each, console, sources, order, pc, mi, inserter, plan, todo, cbs, minted,
                   progress>>

\* merge.ts:136-137: the connection is closed and merge returns.
Closed ==
    /\ pc = "close"
    /\ inflight # <<>>
    /\ Head(inflight).kind = "close"
    /\ dest' = [dest EXCEPT !.closed = TRUE]
    /\ inflight' = Tail(inflight)
    /\ pc' = "closed"
    /\ UNCHANGED <<Inputs, each, console, errors, sources, order, mi, inserter, plan, todo, cbs,
                   minted, progress>>

\* connection.ts:8-18: the driver reports an error, execOrError throws, the
\* rejection reaches the caller of prismerge and the merge ends.
ExecFailed ==
    /\ inflight # <<>>
    /\ Head(inflight).kind = "exec"
    /\ \E r \in RunExec(dest, Head(inflight).stmts) :
          /\ execOrError(r) = "thrown"
          /\ dest' = r.db
          /\ errors' = reported(r, Head(inflight))
    /\ pc' = "failed"
    /\ inflight' = <<>>
    /\ cbs' = {}
    /\ todo' = {}
    /\ UNCHANGED <<Inputs, each, console, sources, order, mi, inserter, plan, minted, progress>>

Next ==
    \/ Prismerge
    \/ PragmaOffDone
    \/ DeliverCatalogRow
    \/ CatalogDone
    \/ CreateMapDone
    \/ DeliverRow
    \/ ProbeDone
    \/ CallbackExecDone
    \/ EachDone
    \/ NextConnection
    \/ LastFlush
    \/ LastFlushDone
    \/ IndicesDone
    \/ PragmaOnDone
    \/ Verify
    \/ VerifyDone
    \/ DropDone
    \/ VacuumDone
    \/ Closed
    \/ ExecFailed

Spec == Init /\ [][Next]_vars

(***************************************************************************)
(* The same merge over a driver that may report an error where the code    *)
(* catches it: for a row of db.each (connection.ts:46-49) and for db.get   *)
(* (connection.ts:75-86).  At most MaxErrors of them are reported.         *)
(***************************************************************************)
MaxErrors == 1

\* connection.ts:47-49 with merge.ts:317-320: db.each reports an error where a
\* row was due; the callback is called with Err and returns at once.  The
\* driver ends the iteration there or goes on with the other rows.
RowError ==
    /\ pc = "stream"
    /\ Cardinality(errors) < MaxErrors
    /\ \E r \in todo :
          /\ todo' \in {{}, todo \ {r}}
          /\ errors' = errors \cup {DriverError("each", pkOfRow(order[mi], r))}
    /\ UNCHANGED <<Inputs, each, console, sources, order, pc, mi, dest, inflight, inserter, plan, cbs,
                   minted, progress>>

\* connection.ts:84-86 with merge.ts:349-354, 372: db.get reports an error and
\* get returns Err, whose `and` calls nothing: existingPk stays None and the
\* callback goes on to insert the row.
ProbeFailed ==
    /\ inflight # <<>>
    /\ Head(inflight).kind = "get"
    /\ Cardinality(errors) < MaxErrors
    /\ LET cb == owner(Head(inflight))
       IN apply(insertStep(order[mi], schema, cb, inserter, minted),
                Tail(inflight), cbs \ {cb})
    /\ errors' = errors \cup {DriverError("get", Head(inflight).owner)}
    /\ UNCHANGED <<Inputs, each, console, sources, order, pc, mi, dest, plan, todo, progress>>

NextFaults ==
    \/ Next
    \/ RowError
    \/ ProbeFailed

SpecFaults == Init /\ [][NextFaults]_vars

(***************************************************************************)
(* The same merge, started from a command line with or without             *)
(* --keep-id-maps.                                                         *)
(***************************************************************************)
InitCli ==
    /\ schema \in Schemas
    /\ minInserts \in 1..MaxInserts
    /\ sources \in {[s \in 1..n |-> <<>>] : n \in 1..MaxSources}
    /\ order = <<>>
    /\ pc = "start"
    /\ mi = 0
    /\ dest = EmptyDb
    /\ inflight = <<>>
    /\ inserter = InsertManager(minInserts)
    /\ plan = <<>>
    /\ todo = <<>>
    /\ cbs = {}
    /\ minted = 0
    /\ progress = ProgressIndicator(0)
    /\ errors = {}
    /\ options \in {Options(keep) : keep \in BOOLEAN}
    /\ console = <<>>
    /\ each = EachLocals

SpecCli == InitCli /\ [][Next]_vars

(***************************************************************************)
(* The same merge over schemas that may be invalid.                        *)
(***************************************************************************)
InitSchema ==
    /\ schema \in Schemas \cup InvalidSchemas
    /\ minInserts \in 1..MaxInserts
    /\ sources \in {[s \in 1..n |-> <<>>] : n \in 1..MaxSources}
    /\ order = <<>>
    /\ pc = "start"
    /\ mi = 0
    /\ dest = EmptyDb
    /\ inflight = <<>>
    /\ inserter = InsertManager(minInserts)
    /\ plan = <<>>
    /\ todo = <<>>
    /\ cbs = {}
    /\ minted = 0
    /\ progress = ProgressIndicator(0)
    /\ errors = {}
    /\ options = Options(FALSE)
    /\ console = <<>>
    /\ each = EachLocals

\* merge.ts:187-190, 238-240: after createInto, primaryKey.unwrap() or
\* getCol(name).unwrap() throws and mergeModel, prismerge and merge reject.
SchemaViolation ==
    /\ MainExec("createMap")
    /\ ~compiles(order[mi])
    /\ inflight' = Tail(inflight)
    /\ pc' = "failed"
    /\ UNCHANGED <<Inputs, each, console, sources, order, mi, inserter, plan, todo, cbs, minted, progress>>

NextSchema ==
    \/ Next
    \/ SchemaViolation

SpecSchema == InitSchema /\ [][NextSchema]_vars

(***************************************************************************)
(* The text of the existence check (merge.ts:233-274, 331-347).  A text is *)
(* a sequence of pieces: the characters ? $ & ' ` and the digits stand     *)
(* alone, every other piece is a stretch of SQL holding none of them.      *)
(* The merge above binds the values of a check structurally; that is what  *)
(* the substitution amounts to as long as no value holds ? or $, as is the *)
(* case for the rows it draws.  Here the values are drawn from texts over  *)
(* ValueChars of at most MaxValueLen characters.                           *)
(***************************************************************************)
MaxValueLen == 2
ValueChars == {"a", "?", "2", "$", "&"}

RECURSIVE Texts(_)
Texts(n) ==
    IF n = 0 THEN {<<>>}
    ELSE Texts(n - 1) \cup {Append(t, c) : t \in {u \in Texts(n - 1) : Len(u) = n - 1},
                                           c \in ValueChars}

\* SQLite's quote() of a TEXT value: between quotes, every quote doubled.
RECURSIVE doubled(_)
doubled(v) ==
    IF v = <<>> THEN <<>>
    ELSE (IF Head(v) = "'" THEN <<"'", "'">> ELSE <<Head(v)>>) \o doubled(Tail(v))

quoteText(v) == <<"'">> \o doubled(v) \o <<"'">>

\* merge.ts:233-274: the WHERE clauses, joined by " AND ", each ending in ?<idx>.
RECURSIVE checkWheres(_, _)
checkWheres(model, idx) ==
    IF idx > Len(unwrap(model.unique).columnNames) THEN <<>>
    ELSE LET name == unwrap(model.unique).columnNames[idx]
             related == getRelatedColumn(unwrap(getCol(model, name)), model)
             lhs == IF isSome(related)
                    THEN MapTableName(unwrap(related).ty.name) \o ".old_id = "
                    ELSE name \o " = "
         IN (IF idx > 1 THEN <<" AND ">> ELSE <<>>)
            \o <<lhs, "?", ToString(idx)>> \o checkWheres(model, idx + 1)

checkSqlTemplateText(model) ==
    <<"SELECT quote(pk) AS pk FROM model <joins> WHERE ">> \o checkWheres(model, 1)
    \o <<" LIMIT 1;">>

\* String.prototype.indexOf, from position i on; 0 when pat does not occur.
RECURSIVE indexOf(_, _, _)
indexOf(text, pat, i) ==
    IF i + Len(pat) - 1 > Len(text) THEN 0
    ELSE IF SubSeq(text, i, i + Len(pat) - 1) = pat THEN i
    ELSE indexOf(text, pat, i + 1)

\* The replacement text of String.prototype.replace for a string pattern:
\* $$ is a dollar, $& the match, $` the text before it, $' the text after it.
RECURSIVE expand(_, _, _, _)
expand(repl, matched, pre, post) ==
    IF repl = <<>> THEN <<>>
    ELSE IF Head(repl) = "$" /\ Len(repl) >= 2 /\ repl[2] \in {"$", "&", "`", "'"}
    THEN (CASE repl[2] = "$" -> <<"$">>
            [] repl[2] = "&" -> matched
            [] repl[2] = "`" -> pre
            [] repl[2] = "'" -> post)
         \o expand(Tail(Tail(repl)), matched, pre, post)
    ELSE <<Head(repl)>> \o expand(Tail(repl), matched, pre, post)

\* text.replace(pat, repl) with a string pattern: the first occurrence only.
replace(text, pat, repl) ==
    LET i == indexOf(text, pat, 1)
        pre == SubSeq(text, 1, i - 1)
        post == SubSeq(text, i + Len(pat), Len(text))
    IN IF i = 0 THEN text ELSE pre \o expand(repl, pat, pre, post) \o post

\* merge.ts:341-347: one replace per unique column, on the text so far.
RECURSIVE checkSqlText(_, _, _, _)
checkSqlText(text, columnNames, row, idx) ==
    IF idx > Len(columnNames) THEN text
    ELSE checkSqlText(replace(text, <<"?", ToString(idx)>>, row[columnNames[idx]]),
                      columnNames, row, idx + 1)

TextGet(text) ==
    [kind |-> "get", stmts |-> <<>>, probe |-> text, owner |-> "main", count |-> 0]

\* A model with a unique constraint and one row of it, as the select query
\* delivers it: every column quoted.
InitProbe ==
    /\ schema = TestSchema
    /\ minInserts = 1
    /\ sources = <<>>
    /\ order \in {<<schema[k]>> : k \in 1..Len(schema)}
    /\ pc = "start"
    /\ mi = 1
    /\ dest = EmptyDb
    /\ inflight = <<>>
    /\ inserter = InsertManager(1)
    /\ plan = <<>>
    /\ todo \in { {[c \in Range(unwrap(order[1].unique).columnNames) |-> quoteText(f[c])]} :
                  f \in [Range(unwrap(order[1].unique).columnNames) -> Texts(MaxValueLen)] }
    /\ cbs = {}
    /\ minted = 0
    /\ progress = ProgressIndicator(0)
    /\ errors = {}
    /\ options = Options(FALSE)
    /\ console = <<>>
    /\ each = EachLocals

\* merge.ts:331-349: the check of the row is put together and handed to get.
Substitute ==
    /\ pc = "start"
    /\ \E row \in todo :
          inflight' = <<TextGet(checkSqlText(checkSqlTemplateText(order[1]),
                                             unwrap(order[1].unique).columnNames, row, 1))>>
    /\ pc' = "probe"
    /\ UNCHANGED <<Inputs, each, console, errors, sources, order, mi, dest, inserter, plan, todo,
                   cbs, minted, progress>>

NextProbe == Substitute

SpecProbe == InitProbe /\ [][NextProbe]_vars

(***************************************************************************)
(* The INSERT of a row on its own (merge.ts:372-420), for the schemas of   *)
(* the test suite and two more datamodels getSchema can deliver: an owner  *)
(* that lists its todo lists, and a profile whose primary key is the key   *)
(* of its owner (`ownerId String @id`, `owner Owner @relation(fields:      *)
(* [ownerId], references: [id])`).                                         *)
(***************************************************************************)
ListedSchema ==
    << Model("Owner",
             Append(OwnerColumns,
                    Column("lists", ColumnType("TodoList", TRUE, FALSE), None, FALSE, FALSE)),
             Some(Unique(<<"name">>))),
       Model("TodoList", TodoListColumns, None) >>

ProfileSchema ==
    << Model("Owner", OwnerColumns, None),
       Model("Profile",
             << Column("ownerId", StringType, None, FALSE, TRUE),
                Column("name", StringType, None, FALSE, FALSE),
                Column("owner", ColumnType("Owner", FALSE, FALSE),
                       Some(Relation(<<"ownerId">>, <<"id">>)), FALSE, FALSE) >>,
             None) >>

InsertSchemas == Schemas \cup {ListedSchema, ProfileSchema}

\* One model of the schema, one row of it, read from the primary or from a
\* secondary connection; the row is not in the destination.
InitInsert ==
    /\ schema \in InsertSchemas
    /\ minInserts \in 1..MaxInserts
    /\ order \in {<<schema[k]>> : k \in 1..Len(schema)}
    /\ pc = "stream"
    /\ mi = 1
    /\ dest = EmptyDb
    /\ inflight = <<>>
    /\ inserter = InsertManager(minInserts)
    /\ plan \in {<<[primary |-> p, sorted |-> sortedConnections(MaxSources, p), ci |-> c]>> :
                    p \in 1..MaxSources, c \in 1..MaxSources}
    /\ todo \in {{r} : r \in [Range(storedColumns(order[1], schema)) -> OwnerIds]}
    /\ sources = [s \in 1..MaxSources |-> [t \in {order[1].name} |-> todo]]
    /\ cbs = {}
    /\ minted = 0
    /\ progress = ProgressIndicator(1)
    /\ errors = {}
    /\ options = Options(FALSE)
    /\ console = <<>>
    /\ each = EachLocals

\* merge.ts:372-420: the callback of the row builds the INSERT and hands it
\* to the InsertManager.
InsertRow ==
    /\ pc = "stream"
    /\ \E r \in todo :
          /\ todo' = todo \ {r}
          /\ LET src == Cur.sorted[Cur.ci]
                 row == selectRow(order[1], schema, r)
                 cb == Callback(row.unquotedPk, "insert", row, src, src = Cur.primary, "")
             IN apply(insertStep(order[1], schema, cb, inserter, minted), inflight, cbs)
    /\ UNCHANGED <<Inputs, each, console, errors, sources, order, pc, mi, dest, plan, progress>>

NextInsert == InsertRow

SpecInsert == InitInsert /\ [][NextInsert]_vars

(***************************************************************************)
(* Connection.each on its own (connection.ts:20-61): a query of up to      *)
(* MaxRows rows, numbered as the driver delivers them, and a callback      *)
(* whose promise settles at any later moment, either way.  pc is where     *)
(* each itself is: awaiting db.each, awaiting the worker, resolved or      *)
(* rejected.  The event loop runs whatever can run.                        *)
(***************************************************************************)
InitEach ==
    /\ schema = <<>>
    /\ minInserts = 1
    /\ sources = <<>>
    /\ order = <<>>
    /\ pc = "each"
    /\ mi = 0
    /\ dest = EmptyDb
    /\ inflight = <<>>
    /\ inserter = InsertManager(1)
    /\ plan = <<>>
    /\ todo \in {1..n : n \in 0..MaxRows}
    /\ cbs = {}
    /\ minted = 0
    /\ progress = ProgressIndicator(Cardinality(todo))
    /\ errors = {}
    /\ options = Options(FALSE)
    /\ console = <<>>
    /\ each = EachLocals

step(e) ==
    /\ each' = e
    /\ UNCHANGED <<Inputs, console, sources, order, mi, dest, inflight, inserter, plan, minted,
                   progress>>

\* connection.ts:46-54: the driver delivers the next row; the callback is
\* called and its promise queued.
EachRow ==
    /\ pc = "each"
    /\ todo # {}
    /\ LET r == CHOOSE x \in todo : \A y \in todo : x <= y
       IN /\ todo' = todo \ {r}
          /\ cbs' = cbs \cup {Callback(r, "pending", r, 1, TRUE, "")}
          /\ step(unshift(each, r))
    /\ UNCHANGED <<pc, errors>>

\* The promise of a callback settles.
CallbackSettles ==
    /\ \E cb \in cbs : \E way \in {"fulfilled", "rejected"} :
          /\ cb.pc = "pending"
          /\ cbs' = (cbs \ {cb}) \cup {[cb EXCEPT !.pc = way]}
    /\ step(each)
    /\ UNCHANGED <<pc, todo, errors>>

\* connection.ts:56-58: db.each has resolved: finished = true; readyResolve();
\* each goes on to await the worker.
DriverDone ==
    /\ pc = "each"
    /\ todo = {}
    /\ pc' = "worker"
    /\ step([each EXCEPT !.finished = TRUE, !.ready = TRUE])
    /\ UNCHANGED <<todo, cbs, errors>>

\* connection.ts:30: the readyPromise the worker awaits is resolved.
WorkerWakes ==
    /\ each.worker = "ready"
    /\ each.ready
    /\ step(drain(each))
    /\ UNCHANGED <<pc, todo, cbs, errors>>

\* connection.ts:33: the callback promise the worker awaits has settled; a
\* rejection is thrown in the worker and ends it.
WorkerResumes ==
    /\ each.worker = "popped"
    /\ \E cb \in cbs :
          /\ cb.id = each.awaited
          /\ cb.pc # "pending"
          /\ step(IF cb.pc = "rejected" THEN [each EXCEPT !.worker = "thrown"]
                  ELSE drain(each))
    /\ UNCHANGED <<pc, todo, cbs, errors>>

\* connection.ts:58-60: await worker; return count.
EachSettles ==
    /\ pc = "worker"
    /\ each.worker \in {"returned", "thrown"}
    /\ pc' = IF each.worker = "returned" THEN "resolved" ELSE "rejected"
    /\ errors' = IF each.worker = "returned" THEN errors
                 ELSE {[DriverError("callback", each.awaited) EXCEPT !.stmts = <<>>]}
    /\ step(each)
    /\ UNCHANGED <<todo, cbs>>

NextEach ==
    \/ EachRow
    \/ CallbackSettles
    \/ DriverDone
    \/ WorkerWakes
    \/ WorkerResumes
    \/ EachSettles

SpecEach == InitEach /\ [][NextEach]_vars /\ WF_vars(NextEach)

(***************************************************************************)
(* Schema.sortedModels on its own: every schema of at most MaxModels       *)
(* models whose relations form no cycle, with the models in every          *)
(* insertion order.                                                        *)
(***************************************************************************)
ModelNames == SubSeq(<<"A", "B", "C", "D", "E", "F">>, 1, MaxModels)

RECURSIVE Paths(_, _)
Paths(E, k) ==
    IF k = 0 THEN E
    ELSE LET P == Paths(E, k - 1)
         IN P \cup UNION { {<<e[1], f[2]>> : f \in {g \in E : g[1] = e[2]}} : e \in P }

Acyclic(E) == \A e \in Paths(E, MaxModels) : e[1] # e[2]

\* The columns of a model that refers to the models of targets (a sequence).
RECURSIVE relationColumns(_)
relationColumns(targets) ==
    IF targets = <<>> THEN <<>>
    ELSE << Column(Head(targets) \o "Id", StringType, None, FALSE, FALSE),
            Column("to" \o Head(targets), ColumnType(Head(targets), FALSE, FALSE),
                   Some(Relation(<<Head(targets) \o "Id">>, <<"id">>)), FALSE, FALSE) >>
         \o relationColumns(Tail(targets))

SchemaOf(nodes, E) ==
    [i \in 1..Len(nodes) |->
        Model(nodes[i],
              <<Column("id", StringType, None, FALSE, TRUE)>>
              \o relationColumns(SelectSeq(ModelNames, LAMBDA t : <<nodes[i], t>> \in E)),
              None)]

Orderings(S) == {q \in [1..Cardinality(S) -> S] : \A i, j \in 1..Cardinality(S) : q[i] = q[j] => i = j}

SortSchemas ==
    UNION { { SchemaOf(q, E) : q \in Orderings(S),
                               E \in {F \in SUBSET {<<x, y>> \in S \X S : x # y} : Acyclic(F)} }
            : S \in SUBSET Range(ModelNames) \ {{}} }

InitSort ==
    /\ schema \in SortSchemas
    /\ minInserts = 1
    /\ sources = <<>>
    /\ order = <<>>
    /\ pc = "start"
    /\ mi = 0
    /\ dest = EmptyDb
    /\ inflight = <<>>
    /\ inserter = InsertManager(1)
    /\ plan = <<>>
    /\ todo = <<>>
    /\ cbs = {}
    /\ minted = 0
    /\ progress = ProgressIndicator(0)
    /\ errors = {}
    /\ options = Options(FALSE)
    /\ console = <<>>
    /\ each = EachLocals

\* data.ts:173-194
SortModels ==
    /\ pc = "start"
    /\ order' = sortedModels(schema)
    /\ pc' = "sorted"
    /\ UNCHANGED <<Inputs, each, console, errors, sources, mi, dest, inflight, inserter, plan, todo, cbs, minted, progress>>

NextSort == SortModels

SpecSort == InitSort /\ [][NextSort]_vars

(***************************************************************************)
(* What the claims speak of.                                                *)
(***************************************************************************)
Models == Range(schema)
MapRows(model) == Rows(dest, model.mapTable)
DestRows(model) == Rows(dest, model.name)
Connections == 1..Len(sources)
position(model) == CHOOSE i \in 1..Len(order) : order[i] = model

\* A has a column carrying a Relation whose type is the model B.
relatesTo(A, B) ==
    \E i \in 1..Len(A.columns) :
        isSome(A.columns[i].relation) /\ A.columns[i].ty.name = B.name

\* C7: sortedModels returns every model of the schema exactly once, and a model
\* that another one refers to comes before it.
SortedModelsOrdered ==
    pc = "sorted" =>
       /\ Len(order) = Len(schema)
       /\ \A m \in Models : Cardinality({i \in 1..Len(order) : order[i] = m}) = 1
       /\ \A A, B \in Models : (A # B /\ relatesTo(A, B)) => position(B) < position(A)

\* C7 witness: three models, the first inserted refers to the second, which
\* refers to the third, so the insertion order is the wrong way round.
SortedChain ==
    /\ pc = "sorted"
    /\ Len(schema) = 3
    /\ relatesTo(schema[1], schema[2])
    /\ relatesTo(schema[2], schema[3])

(***************************************************************************)
(* The merge as a whole.                                                   *)
(***************************************************************************)
pkOf(model, r) == r[pkName(model)]
primaryOf(model) == plan[position(model)].primary
sourceRow(model, o) ==
    CHOOSE r \in SourceRows(o.conn, model.name) : pkOf(model, r) = o.pk
AllSourceRows(model) ==
    UNION { {<<s, r>> : r \in SourceRows(s, model.name)} : s \in Connections }
holders(model, pk) ==
    {s \in Connections : \E r \in SourceRows(s, model.name) : pkOf(model, r) = pk}
\* Two connections carry a row of the model under the same primary key.
sharedPk(model) ==
    \E r \in InputRows(model) : Cardinality(holders(model, pkOf(model, r))) > 1
fkColumns(model) ==
    {i \in 1..Len(model.columns) : isSome(getRelatedColumn(model.columns[i], model))}
parentOf(model, i) ==
    modelsGet(schema, unwrap(getRelatedColumn(model.columns[i], model)).ty.name)
\* The map row written for the row with key pk of connection s.
mapRowsOf(model, s, pk) ==
    {e \in MapRows(model) : e.src.conn = s /\ e.src.pk = pk}

\* A request of the merge of the model: its map table, an insert, a check.
requestOf(op, model) ==
    \/ /\ op.kind = "exec"
       /\ \E k \in 1..Len(op.stmts) :
             \/ op.stmts[k].op = "CREATE" /\ op.stmts[k].object.table = model.mapTable
             \/ op.stmts[k].op = "INSERT" /\ op.stmts[k].table \in {model.name, model.mapTable}
    \/ op.kind = "get" /\ op.probe.table = model.name
issued(model) ==
    \/ HasObject(dest, model.mapTable)
    \/ \E k \in 1..Len(inflight) : requestOf(inflight[k], model)
merged(model) ==
    /\ \A k \in 1..Len(createIndicesSql(model.mapTable)) :
          HasObject(dest, createIndicesSql(model.mapTable)[k].object.name)
    /\ \A k \in 1..Len(inflight) : ~requestOf(inflight[k], model)
    /\ \A sr \in AllSourceRows(model) : mapRowsOf(model, sr[1], pkOf(model, sr[2])) # {}

\* merge.ts:126-131: the map tables are in the destination until merge drops them.
mapsKept == pc \notin {"drop", "close", "closed"}

\* C1: a row copied into the destination carries, in every foreign key column,
\* the destination key of the parent row it referred to in its source: the
\* new_id of the parent's map entry whose old_id is the source value, provided no
\* two connections carry a parent row under the same primary key.  (The map
\* entries are looked at before merge drops the map tables.)
ForeignKeysRemapped ==
    mapsKept =>
    \A M \in Models : \A d \in DestRows(M) : \A i \in fkColumns(M) :
        LET c == M.columns[i].name
            P == parentOf(M, i)
            entries == {e \in MapRows(P) : e.v.old_id = sourceRow(M, d.src)[c]}
        IN ~sharedPk(P) =>
              /\ entries # {}
              /\ \A e \in entries : d.v[c] = e.v.new_id
              /\ \E p \in DestRows(P) : pkOf(P, p.v) = d.v[c]

\* C1 witness: the merge is over and a copied row refers to its parent under
\* a key that differs from the one in its source.
ForeignKeyChanged ==
    /\ pc = "done"
    /\ \E M \in Models : \E d \in DestRows(M) : \E i \in fkColumns(M) :
          /\ ~sharedPk(parentOf(M, i))
          /\ d.v[M.columns[i].name] # sourceRow(M, d.src)[M.columns[i].name]

\* C8: when the first statement of the merge of a model A is issued, the merge
\* of every model B that A refers to is over: every row of B has its map row
\* in the destination, nothing of B is in flight and B's map indices exist.
\* (Looked at before merge drops the map tables.)
DependenciesMergedFirst ==
    mapsKept =>
    \A A, B \in Models : (A # B /\ relatesTo(A, B) /\ issued(A)) => merged(B)

\* C8 witness: the map table of a model is being created while the model it
\* refers to has rows from two connections in the destination.
DependentStarts ==
    /\ pc = "createMap"
    /\ \E B \in Models :
          /\ relatesTo(order[mi], B)
          /\ \E d1, d2 \in DestRows(B) : d1.src.conn # d2.src.conn

\* C9: the callbacks of the rows of one connection do not overlap: while rows
\* are streamed, at most one callback has started and not yet settled.
RowsNotInterleaved == pc = "stream" => Cardinality(cbs) <= 1

\* C10: at most one request (statement, batch or check) is in flight against
\* the destination connection.
OneRequestInFlight == Len(inflight) <= 1

\* The values of the model's unique index that the row r of connection s has
\* once every foreign key is replaced by the destination key of r's parent.
uniqueColumns(model) == Range(unwrap(model.unique).columnNames)
remapped(model, s, r, c) ==
    LET related == getRelatedColumn(unwrap(getCol(model, c)), model)
    IN IF isSome(related)
       THEN {e.v.new_id : e \in mapRowsOf(modelsGet(schema, unwrap(related).ty.name), s, r[c])}
       ELSE {r[c]}
sameUnique(model, s1, r1, s2, r2) ==
    \A c \in uniqueColumns(model) :
        /\ remapped(model, s1, r1, c) # {}
        /\ remapped(model, s1, r1, c) = remapped(model, s2, r2, c)
\* The two rows ended as one row of the destination.
coalesced(model, s1, r1, s2, r2) ==
    \E d \in DestRows(model) :
        /\ \A e \in mapRowsOf(model, s1, pkOf(model, r1)) \cup mapRowsOf(model, s2, pkOf(model, r2)) :
              e.v.old_id \in {pkOf(model, r1), pkOf(model, r2)} /\ e.v.new_id = pkOf(model, d.v)
        /\ mapRowsOf(model, s1, pkOf(model, r1)) # {}
        /\ mapRowsOf(model, s2, pkOf(model, r2)) # {}
        /\ \A x \in DestRows(model) :
              (\A c \in uniqueColumns(model) : x.v[c] = d.v[c]) => x = d
        /\ \A c \in uniqueColumns(model) : d.v[c] \in remapped(model, s1, r1, c)
uniqueParents(model) ==
    {P \in Models : \E c \in uniqueColumns(model) :
        LET related == getRelatedColumn(unwrap(getCol(model, c)), model)
        IN isSome(related) /\ unwrap(related).ty.name = P.name}

\* C2 as stated: after the merge, two source rows of a model with a unique
\* constraint whose unique values are equal after foreign-key remapping are one
\* row of the destination, and the map table sends both keys to that row.
DedupCoherent ==
    pc = "done" =>
       \A M \in {X \in Models : isSome(X.unique)} :
          \A sr1, sr2 \in AllSourceRows(M) :
             (sr1 # sr2 /\ sameUnique(M, sr1[1], sr1[2], sr2[1], sr2[2]))
                => coalesced(M, sr1[1], sr1[2], sr2[1], sr2[2])

\* C2: the same, for models whose unique constraint refers only to parent
\* models of which no two connections carry a row under the same primary key.
DedupCoherentDistinctKeys ==
    pc = "done" =>
       \A M \in {X \in Models : isSome(X.unique)} :
          (\A P \in uniqueParents(M) : ~sharedPk(P)) =>
             \A sr1, sr2 \in AllSourceRows(M) :
                (sr1 # sr2 /\ sameUnique(M, sr1[1], sr1[2], sr2[1], sr2[2]))
                   => coalesced(M, sr1[1], sr1[2], sr2[1], sr2[2])

\* C2 witness: a row whose unique index holds a foreign key was found in the
\* destination under a remapped parent key and only its map row was written.
ChildRowCoalesced ==
    /\ pc = "done"
    /\ \E M \in {X \in Models : isSome(X.unique)} :
          /\ uniqueParents(M) # {}
          /\ \A P \in uniqueParents(M) : ~sharedPk(P)
          /\ \E e \in MapRows(M) : \E i \in fkColumns(M) :
                /\ e.src.how = "existing"
                /\ \E d \in DestRows(M) :
                      /\ pkOf(M, d.v) = e.v.new_id
                      /\ d.v[M.columns[i].name] # sourceRow(M, e.src)[M.columns[i].name]

\* C3 as stated: after the merge the map table of a model holds exactly one
\* row whose old_id is the primary key of a given source row.
OneMapRowPerKey ==
    pc = "done" =>
       \A M \in Models : \A sr \in AllSourceRows(M) :
          Cardinality({e \in MapRows(M) : e.v.old_id = pkOf(M, sr[2])}) = 1

\* C3: after the merge the map table holds exactly one row for every source
\* row, so as many rows with a given old_id as there are connections carrying
\* a row under that key: one where the key is carried by one connection only.
OneMapRowPerSourceRow ==
    pc = "done" =>
       \A M \in Models :
          /\ \A sr \in AllSourceRows(M) :
                /\ Cardinality(mapRowsOf(M, sr[1], pkOf(M, sr[2]))) = 1
                /\ Cardinality({e \in MapRows(M) : e.v.old_id = pkOf(M, sr[2])})
                      = Cardinality(holders(M, pkOf(M, sr[2])))
          /\ \A e \in MapRows(M) :
                /\ e.v.old_id = e.src.pk
                /\ \E sr \in AllSourceRows(M) : sr[1] = e.src.conn /\ pkOf(M, sr[2]) = e.src.pk

\* C3 witness: the merge is over, one key is carried by two connections and
\* another by one only.
KeysSharedAndNot ==
    /\ pc = "done"
    /\ \E M \in Models : \E sr1, sr2 \in AllSourceRows(M) :
          /\ Cardinality(holders(M, pkOf(M, sr1[2]))) = 2
          /\ Cardinality(holders(M, pkOf(M, sr2[2]))) = 1

\* The columns copied as they are: neither the key nor a foreign key.
plainColumns(model) ==
    {c \in Range(names(colsToCopy(model, schema))) :
        ~isSome(getRelatedColumn(unwrap(getCol(model, c)), model))}

\* C4: after the merge every row of the primary connection of a model is in
\* the destination under its own primary key, and its map row is the identity.
PrimaryPreserved ==
    pc = "done" =>
       \A M \in Models : \A r \in SourceRows(primaryOf(M), M.name) :
          /\ \E d \in DestRows(M) :
                /\ pkOf(M, d.v) = pkOf(M, r)
                /\ d.src.conn = primaryOf(M) /\ d.src.pk = pkOf(M, r)
                /\ \A c \in plainColumns(M) : d.v[c] = r[c]
          /\ \A e \in mapRowsOf(M, primaryOf(M), pkOf(M, r)) :
                e.v.old_id = pkOf(M, r) /\ e.v.new_id = pkOf(M, r)
          /\ mapRowsOf(M, primaryOf(M), pkOf(M, r)) # {}

\* C4 witness: the merge is over and the primary of a model is not the first
\* connection, which has rows of the model too.
LaterPrimaryKept ==
    /\ pc = "done"
    /\ \E M \in Models :
          /\ primaryOf(M) # 1
          /\ SourceRows(1, M.name) # {}
          /\ MapRows(M) # {}

\* C5: a row of a secondary connection that the existence check did not find
\* is in the destination under a key that is not its own, is no key of any
\* source row of the model, and is the key of no other row of the table.
dealtWith(model) == position(model) < mi \/ pc = "done"
SecondaryKeysFresh ==
    \A M \in {X \in Models : \E i \in 1..Len(plan) : order[i] = X} :
       /\ \A d \in DestRows(M) :
             d.src.conn # primaryOf(M) =>
                /\ pkOf(M, d.v) # d.src.pk
                /\ \A sr \in AllSourceRows(M) : pkOf(M, d.v) # pkOf(M, sr[2])
                /\ \A x \in DestRows(M) : pkOf(M, x.v) = pkOf(M, d.v) => x = d
       /\ dealtWith(M) =>
             \A sr \in AllSourceRows(M) : \A e \in mapRowsOf(M, sr[1], pkOf(M, sr[2])) :
                (sr[1] # primaryOf(M) /\ e.src.how = "inserted") =>
                   \E d \in DestRows(M) : d.src = e.src /\ pkOf(M, d.v) = e.v.new_id

\* C5 witness: the merge is over and a row of a secondary connection is in the
\* destination although a row of the primary has the same key in its source.
SecondaryRowStored ==
    /\ pc = "done"
    /\ \E M \in Models : \E d \in DestRows(M) :
          /\ d.src.conn # primaryOf(M)
          /\ \E r \in SourceRows(primaryOf(M), M.name) : pkOf(M, r) = d.src.pk

\* C6: after the merge the destination table of a model has at most as many
\* rows as the sources together, and exactly as many if and only if the model
\* has no unique constraint or the existence check found no secondary row.
found(model) == {e \in MapRows(model) : e.src.how = "existing"}
RowCountLaw ==
    pc = "done" =>
       \A M \in Models :
          /\ Cardinality(DestRows(M)) <= Cardinality(AllSourceRows(M))
          /\ Cardinality(DestRows(M)) = Cardinality(AllSourceRows(M))
                <=> (~isSome(M.unique) \/ found(M) = {})

\* C6 witness: the merge is over and a model lost a row to the existence
\* check while another model kept all of its rows from two connections.
RowsFoundAndKept ==
    /\ pc = "done"
    /\ \E M \in Models : found(M) # {} /\ Cardinality(DestRows(M)) < Cardinality(AllSourceRows(M))
    /\ \E M \in Models :
          /\ found(M) = {}
          /\ \E d1, d2 \in DestRows(M) : d1.src.conn # d2.src.conn

(***************************************************************************)
(* The InsertManager on its own: any sequence of calls of insert,          *)
(* insertSupporting and flush, as mergeModel makes them: what a call       *)
(* returns goes to progress.inc (merge.ts:367, 420, 428, 432, 435).        *)
(* A statement is tagged with the method it was handed to and numbered;    *)
(* minted counts the statements made, at most MaxRows.  Each statement     *)
(* inserts its number into the one table of the destination, so that what  *)
(* the driver executed, and what it would refuse to execute twice, shows.  *)
(***************************************************************************)
\* The batches handed to the driver in a run of the InsertManager on its own.
MaxBatches == 6

Journal == "Journal"
Statement(via) ==
    [op |-> "INSERT", via |-> via, n |-> minted + 1, table |-> Journal,
     columns |-> <<"n">>, values |-> <<Quoted(ToString(minted + 1))>>, joins |-> <<>>,
     src |-> minted + 1]
JournalDb ==
    [EmptyDb EXCEPT !.catalog = {TableObject(Journal, <<"n">>, <<"n">>)},
                    !.tables = (Journal :> {})]
regular(stmts) ==
    Cardinality({k \in 1..Len(stmts) : stmts[k].op = "INSERT" /\ stmts[k].via = "insert"})
RECURSIVE pendingCount(_)
pendingCount(queue) ==
    IF queue = <<>> THEN 0 ELSE Head(queue).count + pendingCount(Tail(queue))

InitBatcher ==
    /\ schema = <<>>
    /\ minInserts \in 1..MaxInserts
    /\ sources = <<>>
    /\ order = <<>>
    /\ pc = "start"
    /\ mi = 0
    /\ dest = JournalDb
    /\ inflight = <<>>
    /\ inserter = InsertManager(minInserts)
    /\ plan = <<>>
    /\ todo = <<>>
    /\ cbs = {}
    /\ minted = 0
    /\ progress = ProgressIndicator(MaxRows)
    /\ errors = {}
    /\ options = Options(FALSE)
    /\ console = <<>>
    /\ each = EachLocals

\* The caller hands over the result of a call: a batch goes to the driver and
\* the count is returned when it completes, otherwise the count is returned
\* at once.
handOver(res, made) ==
    /\ minted + made <= MaxRows
    /\ minted' = minted + made
    /\ inserter' = res.ins
    /\ IF isSome(res.batch)
       THEN /\ Len(inflight) < MaxInserts
            /\ dest.commits + Cardinality(errors) + Len(inflight) < MaxBatches
            /\ inflight' = Append(inflight, ExecOp(unwrap(res.batch), "main", res.count))
            /\ UNCHANGED progress
       ELSE /\ progress' = inc(progress, res.count)
            /\ UNCHANGED inflight
    /\ UNCHANGED <<Inputs, each, console, errors, sources, order, mi, dest, plan, todo, cbs>>

\* connection.ts:124-128
BatcherInsert ==
    /\ progress.count + pendingCount(inflight) + inserter.count < progress.total
    /\ handOver(insert(inserter, Statement("insert")), 1)
    /\ pc' = "insert"

\* connection.ts:130-133
BatcherInsertSupporting ==
    /\ handOver(insertSupporting(inserter, Statement("insertSupporting")), 1)
    /\ pc' = "insertSupporting"

\* connection.ts:143-150
BatcherFlush ==
    /\ handOver(flush(inserter), 0)
    /\ pc' = "flush"

\* connection.ts:147-149: the batch is executed and the call returns its count.
BatcherExecDone ==
    /\ inflight # <<>>
    /\ \E r \in RunExec(dest, Head(inflight).stmts) :
          /\ execOrError(r) = "returned"
          /\ dest' = r.db
    /\ inflight' = Tail(inflight)
    /\ progress' = inc(progress, Head(inflight).count)
    /\ pc' = "returned"
    /\ UNCHANGED <<Inputs, each, console, errors, sources, order, mi, inserter, plan, todo, cbs, minted>>

\* connection.ts:147, 16-18: the driver rejects the batch and the call, flush
\* or the insert that flushed, raises instead of returning.
BatcherExecFailed ==
    /\ inflight # <<>>
    /\ Cardinality(errors) < MaxErrors
    /\ inflight' = Tail(inflight)
    /\ errors' = reported(Failed(dest), Head(inflight))
    /\ pc' = "raised"
    /\ UNCHANGED <<Inputs, each, console, sources, order, mi, dest, inserter, plan, todo, cbs, minted,
                   progress>>

NextBatcher ==
    \/ BatcherInsert
    \/ BatcherInsertSupporting
    \/ BatcherFlush
    \/ BatcherExecDone
    \/ BatcherExecFailed

SpecBatcher == InitBatcher /\ [][NextBatcher]_vars

flushed == Len(inflight') > Len(inflight)
ContractStep ==
    /\ inserter'.count = regular(inserter'.statements)
    /\ (pc' \in {"insert", "insertSupporting", "flush"} /\ ~flushed) => progress' = progress
    /\ flushed =>
          /\ inflight'[Len(inflight')].count = regular(inflight'[Len(inflight')].stmts)
          /\ inserter'.count = 0
          /\ inserter'.statements = <<>>
          /\ SubSeq(inflight'[Len(inflight')].stmts, 2, Len(inserter.statements) + 1)
                = inserter.statements
    /\ pc' = "insertSupporting" =>
          IF flushed THEN inflight'[Len(inflight')].count = inserter.count
          ELSE inserter'.count = inserter.count
    /\ pc' = "returned" => progress'.count = progress.count + regular(Head(inflight).stmts)

\* C11: a call of insert, insertSupporting or flush that does not flush returns
\* 0; one that flushes returns the number of statements handed to insert since
\* the previous flush and leaves the count at 0; insertSupporting adds nothing
\* to the count.
BatcherContract == [][ContractStep]_vars

\* C11 witness: after an earlier batch was counted, insertSupporting has
\* flushed a batch of one statement handed to insert and its own, and the
\* count is 0 again.
SupportingFlushed ==
    /\ pc = "insertSupporting"
    /\ progress.count > 0
    /\ inflight # <<>>
    /\ inflight[Len(inflight)].count = 1
    /\ Len(inflight[Len(inflight)].stmts) = 4
    /\ inserter.count = 0

\* C12: when the last flush of a model's merge has returned, the values passed
\* to progress.inc add up to the number of source rows of the model.
ProgressConserved ==
    pc = "indices" =>
       /\ progress.count = Cardinality(AllSourceRows(order[mi]))
       /\ progress.total = Cardinality(AllSourceRows(order[mi]))

\* C12 witness: the last flush of a model has returned; two of its rows were
\* inserted, a third was found in the destination, and two statements make a
\* batch.
ProgressMixed ==
    /\ pc = "indices"
    /\ minInserts = 2
    /\ found(order[mi]) # {}
    /\ Cardinality(DestRows(order[mi])) = 2

\* The batch transactions the merges of the first k models would take if each
\* took ceil(n / T) of them, n being the number of source rows of the model.
RECURSIVE batchesExpected(_)
batchesExpected(k) ==
    IF k = 0 THEN 0
    ELSE batchesExpected(k - 1)
         + (Cardinality(AllSourceRows(order[k])) + minInserts - 1) \div minInserts

\* C13: when the merge of a model with n source rows is over, it has had
\* exactly ceil(n / T) batch transactions committed in the destination (so have
\* the models merged before it).
BatchBoundary ==
    pc = "indices" => dest.commits = batchesExpected(mi)

(***************************************************************************)
(* Errors of the driver.                                                   *)
(***************************************************************************)
\* C14: once the driver has reported an error for a row being streamed or for
\* the existence check, the merge is aborted: it handles no further row and
\* does not insert the row whose check failed.
StreamErrorAborts ==
    (\E e \in errors : e.on \in {"each", "get"}) => pc = "failed"

\* C15: an error of the driver on a batch handed over by flush is not
\* swallowed: the call that triggered the flush raises and prismerge ends with
\* the error, whoever triggered it.
FlushErrorRaised ==
    (\E e \in errors : e.on = "flush") => pc = "failed"

\* C15 witness: a batch triggered by a row callback's insert failed halfway, its
\* transaction still open, and the merge has ended with the error.
CallbackFlushFailed ==
    /\ pc = "failed"
    /\ dest.open
    /\ \E e \in errors : e.on = "flush" /\ e.owner # "main"

(***************************************************************************)
(* Schema violations.                                                      *)
(***************************************************************************)
\* C16: when a model of the schema has no primary key column, or its unique
\* constraint names a column the model has not, no statement is ever executed
\* on the destination: the violation is reported first.
SchemaViolationFirst ==
    (\E m \in Range(schema) : ~compiles(m)) => dest = EmptyDb

(***************************************************************************)
(* After the merge: integrity, map tables.                                 *)
(***************************************************************************)
\* A row of some source refers to a parent key that no source holds.
dangling ==
    \E m \in Models : \E i \in fkColumns(m) : \E sr \in AllSourceRows(m) :
        \A pr \in AllSourceRows(parentOf(m, i)) :
            pkOf(parentOf(m, i), pr[2]) # sr[2][m.columns[i].name]

\* C17: an input with a child row referring to a parent key that exists in no
\* source does not stop the merge (here: of a single source), and once merge
\* has returned, the line "Table <model> has <k> foreign key integrity problems"
\* has been written for every model whose foreign key check counts k > 0 rows.
IntegrityWarned ==
    /\ (dangling /\ Len(sources) = 1) => pc # "failed"
    /\ pc = "closed" =>
          \A m \in Models :
             LET k == foreign_key_check(dest, m, schema)
             IN k > 0 => \E n \in 1..Len(console) : console[n] = integrityLine(m, k)

mapObjects(model) ==
    {model.mapTable} \cup
    {createIndicesSql(model.mapTable)[k].object.name :
        k \in 1..Len(createIndicesSql(model.mapTable))}

\* C18: once merge has returned, with --keep-id-maps every map table is still
\* in the destination, and without it every map table and its three indices
\* are gone.
KeepIdMapsHonoured ==
    pc = "closed" =>
       \A m \in Models :
          IF options.keepIdMaps
          THEN HasObject(dest, m.mapTable)
          ELSE \A name \in mapObjects(m) : ~HasObject(dest, name)

(***************************************************************************)
(* One source; the choice of the primary.                                  *)
(***************************************************************************)
\* C19: when a single source has been merged, the destination holds, for every
\* model, exactly the rows of the source: same primary keys, same foreign keys,
\* same values, whatever the batch threshold.
SingleSourceCopied ==
    (Len(sources) = 1 /\ pc \in {"done", "verify", "drop", "close", "closed"}) =>
       \A m \in Models : {d.v : d \in DestRows(m)} = SourceRows(1, m.name)

\* C19 witness: a single source with two owners and a list of one of them has
\* been merged in batches of two statements, and merge has returned.
SingleSourceMerged ==
    /\ Len(sources) = 1
    /\ pc = "closed"
    /\ minInserts = 2
    /\ \E m \in Models : fkColumns(m) # {} /\ DestRows(m) # {}
    /\ \E m \in Models : Cardinality(DestRows(m)) = 2

rowCount(k, s) == Cardinality(SourceRows(s, order[k].name))

\* C20: for every model, the primary is the source with the most rows of the
\* model, the earliest of them when several have as many (so the first source
\* when no source has a row), and the rows of every other source are handled
\* as a secondary's.
PrimaryIsLargest ==
    /\ \A k \in 1..Len(plan) :
          /\ plan[k].primary \in Connections
          /\ \A s \in Connections : rowCount(k, s) <= rowCount(k, plan[k].primary)
          /\ \A s \in 1..(plan[k].primary - 1) : rowCount(k, s) < rowCount(k, plan[k].primary)
          /\ plan[k].sorted[1] = plan[k].primary
          /\ Range(plan[k].sorted) = Connections
    /\ pc \in {"stream", "flushSrc"} =>
          \A cb \in cbs : cb.isPrimary <=> cb.src = Cur.primary

\* C20 witness: two sources hold as many rows of a model, at least one each,
\* and rows of the second one are being handled.
PrimaryTied ==
    /\ pc = "stream"
    /\ Len(sources) = 2
    /\ rowCount(mi, 1) = rowCount(mi, 2)
    /\ rowCount(mi, 1) > 0
    /\ \E cb \in cbs : cb.src = 2

(***************************************************************************)
(* The order of the work within a model.                                   *)
(***************************************************************************)
\* The statements that are not yet in the destination: held by the
\* InsertManager or handed to the driver.
pending ==
    Range(inserter.statements) \cup
    UNION {Range(inflight[k].stmts) : k \in 1..Len(inflight)}

gets(queue) == {k \in 1..Len(queue) : queue[k].kind = "get"}

\* A row is delivered to its callback.
rowDelivered == pc = "stream" /\ pc' = "stream" /\ todo' # todo

probeStep ==
    rowDelivered =>
       ((Cardinality(gets(inflight')) = Cardinality(gets(inflight)) + 1)
           <=> (Cur.sorted[Cur.ci] # Cur.primary /\ isSome(order[mi].unique)))

neverProbed ==
    /\ \A k \in gets(inflight) : \A cb \in cbs :
          cb.id = inflight[k].owner => (~cb.isPrimary /\ isSome(order[mi].unique))
    /\ \A k \in 1..Len(plan) : \A e \in MapRows(order[k]) :
          e.src.conn = plan[k].primary => e.src.how = "inserted"
    /\ \A k \in 1..Len(plan) :
          (k < mi /\ mapsKept) =>
             \A r \in SourceRows(plan[k].primary, order[k].name) :
                \E d \in DestRows(order[k]) :
                   /\ d.src = Origin(plan[k].primary, pkOf(order[k], r), "inserted")
                   /\ pkOf(order[k], d.v) = pkOf(order[k], r)

\* C22: the existence check is made for a row exactly when its source is a
\* secondary of the model and the model has a unique constraint; a row of the
\* primary is never checked and is always inserted.
ProbedIffSecondaryUnique == []neverProbed /\ [][probeStep]_vars

\* C22 witness: a row of the primary is in the destination, inserted without a
\* check, and the check of a secondary's row is under way.
ProbeUnderWay ==
    /\ pc = "stream"
    /\ Cur.primary = 1
    /\ gets(inflight) # {}
    /\ \E d \in DestRows(order[mi]) : d.src.conn = 1 /\ d.src.how = "inserted"

\* The check with the placeholder of every unique column replaced by the
\* row's quoted value of that column.
RECURSIVE exactWheres(_, _, _)
exactWheres(model, row, idx) ==
    IF idx > Len(unwrap(model.unique).columnNames) THEN <<>>
    ELSE LET w == checkWheres(model, idx)
         IN SubSeq(w, 1, IF idx > 1 THEN 2 ELSE 1)
            \o row[unwrap(model.unique).columnNames[idx]]
            \o exactWheres(model, row, idx + 1)

exactSql(model, row) ==
    <<checkSqlTemplateText(model)[1]>> \o exactWheres(model, row, 1) \o <<" LIMIT 1;">>

\* C23: the check handed to the destination is the template with every
\* placeholder ?i replaced by exactly the quoted value of the i-th unique
\* column, whatever the value holds.
SubstitutionExact ==
    pc = "probe" => \A row \in todo : Head(inflight).probe = exactSql(order[1], row)

(***************************************************************************)
(* Flushes that fail, flushes of nothing.                                  *)
(***************************************************************************)
inserts(stmts) == {stmts[k] : k \in {j \in 1..Len(stmts) : stmts[j].op = "INSERT"}}

\* C24: once the driver has rejected a batch, none of its statements is held
\* by the InsertManager or part of a batch handed over later, and the count
\* covers the held statements only: nothing is tried again.
NoRetry ==
    \A e \in errors :
       e.on = "flush" =>
          /\ inserts(e.stmts) \cap inserts(inserter.statements) = {}
          /\ \A k \in 1..Len(inflight) : inserts(e.stmts) \cap inserts(inflight[k].stmts) = {}
          /\ inserter.count = regular(inserter.statements)

\* C24 witness: a batch with a statement in it was rejected, and after that
\* another batch, with later statements, has been handed over.
FlushedAfterFailure ==
    /\ \E e \in errors : e.on = "flush" /\ inserts(e.stmts) # {}
    /\ inflight # <<>>
    /\ inserts(inflight[Len(inflight)].stmts) # {}
    /\ pc \in {"insert", "insertSupporting", "flush"}

\* C25: a flush of an InsertManager that holds nothing does nothing: no
\* transaction, no statement is handed to the destination.
EmptyFlushNoOp ==
    \A k \in 1..Len(inflight) :
       inflight[k].kind = "exec" => inflight[k].stmts # <<BeginStmt, CommitStmt>>

(***************************************************************************)
(* The indices of the map tables.                                          *)
(***************************************************************************)
indexNames(model) ==
    {createIndicesSql(model.mapTable)[k].object.name :
        k \in 1..Len(createIndicesSql(model.mapTable))}

\* An index of the model's map table exists or its creation has been requested.
indexing(model) ==
    \/ \E name \in indexNames(model) : HasObject(dest, name)
    \/ \E st \in pending : st.op = "CREATE" /\ st.object.name \in indexNames(model)

\* C26: the indices of a model's map table are created only when every insert
\* of the model's merge is in the destination (a map row for every row of every
\* source, nothing pending, no callback running), and they exist before
\* anything of the next model's merge is issued.
IndicesAfterInserts ==
    mapsKept =>
       \A k \in 1..Len(order) :
          /\ indexing(order[k]) =>
                /\ \A st \in pending :
                      st.op = "INSERT" => st.table \notin {order[k].name, order[k].mapTable}
                /\ k = mi => cbs = {}
                /\ \A sr \in AllSourceRows(order[k]) :
                      mapRowsOf(order[k], sr[1], pkOf(order[k], sr[2])) # {}
                /\ k <= Len(plan)
                /\ plan[k].ci = Len(sources)
          /\ (k < Len(order) /\ issued(order[k + 1])) =>
                \A name \in indexNames(order[k]) : HasObject(dest, name)

\* C26 witness: the creation of the indices is requested for a model whose
\* rows came from two sources, one of them found in the destination already.
IndicesRequested ==
    /\ pc = "indices"
    /\ inflight # <<>>
    /\ Len(sources) = 2
    /\ found(order[mi]) # {}
    /\ Cardinality(MapRows(order[mi])) >= 2

(***************************************************************************)
(* The last steps of merge.                                                *)
(***************************************************************************)
requested(op) == \E st \in pending : st.op = op

\* C27: the pragmas are switched back on before an integrity check is made;
\* the checks and the drops of the map tables are over before VACUUM is
\* requested; VACUUM has been executed before the connection is closed.
FinalStepsOrdered ==
    /\ (\E k \in 1..Len(inflight) : inflight[k].kind = "check") =>
          (dest.safe /\ ~requested("PRAGMA"))
    /\ (requested("VACUUM") \/ dest.vacuums > 0) =>
          /\ \A k \in 1..Len(inflight) : inflight[k].kind # "check"
          /\ ~requested("DROP")
          /\ pc \in {"close", "closed"}
          /\ mi > Len(schema) \/ keepIdMaps(options)
    /\ dest.closed => (dest.vacuums = 1 /\ inflight = <<>> /\ pc = "closed")

\* C27 witness: merge has returned; the rows of two sources are in the
\* destination, vacuumed and closed.
MergeReturned ==
    /\ pc = "closed"
    /\ dest.closed
    /\ dest.vacuums = 1
    /\ Len(sources) = 2
    /\ \E m \in Models : Cardinality(DestRows(m)) >= 2

(***************************************************************************)
(* A foreign key without a map entry.                                      *)
(***************************************************************************)
\* The rows of the model, in any source, with a foreign key that no row of the
\* referenced model in any source has as its key: no map entry is ever written
\* for such a key.
unmapped(model) ==
    {sr \in AllSourceRows(model) :
        \E i \in fkColumns(model) :
           \A pr \in AllSourceRows(parentOf(model, i)) :
              pkOf(parentOf(model, i), pr[2]) # sr[2][model.columns[i].name]}

\* C28: a row of the single source whose foreign key has no entry in the map
\* table of the referenced model raises no error, and once the merge of its
\* model is over exactly one row stands for it in the destination, with the
\* foreign key column NULL; the merge goes on to its end.
MissingEntryInsertsNull ==
    \A m \in Models : \A sr \in unmapped(m) :
        Len(sources) = 1 =>
           /\ pc # "failed"
           /\ errors = {}
           /\ pc \in {"done", "verify", "drop", "close", "closed"} =>
                 LET ds == {d \in DestRows(m) : pkOf(m, d.v) = pkOf(m, sr[2])}
                 IN /\ Cardinality(ds) = 1
                    /\ \E d \in ds : \E i \in fkColumns(m) : d.v[m.columns[i].name] = NULL

(***************************************************************************)
(* The columns of the INSERT of a row.                                     *)
(***************************************************************************)
modelInserts ==
    {st \in pending : st.op = "INSERT" /\ st.table = order[1].name}

\* The columns of the model named in the local fields of one of its relations.
foreignKeys(model) ==
    {model.columns[i].name : i \in fkColumns(model)}

stored(model) ==
    {c.name : c \in {d \in Range(model.columns) :
                        /\ ~d.ty.collection
                        /\ ~hasRelation(d)
                        /\ ~\E k \in 1..Len(schema) : schema[k].name = d.ty.name}}

\* C29: the INSERT of a row lists every stored column of the model once and no
\* other column: first the primary key, with the new key; a foreign key column
\* with <map of the referenced model>.new_id; any other column with the quoted
\* value of the source row.
InsertListsColumnsOnce ==
    \A st \in modelInserts :
       LET model == order[1]
           row == sourceRow(model, st.src)
       IN /\ Range(st.columns) = stored(model)
          /\ Len(st.columns) = Cardinality(stored(model))
          /\ Len(st.values) = Len(st.columns)
          /\ st.columns[1] = pkName(model)
          /\ st.values[1] = Quoted(IF Cur.sorted[Cur.ci] = Cur.primary
                                   THEN st.src.pk
                                   ELSE randomUUID(model.name, st.src.conn, st.src.pk))
          /\ \A k \in 2..Len(st.columns) :
                IF st.columns[k] \in foreignKeys(model)
                THEN \E i \in fkColumns(model) :
                        /\ model.columns[i].name = st.columns[k]
                        /\ st.values[k] = NewId(MapTableName(parentOf(model, i).name))
                ELSE st.values[k] = Quoted(row[st.columns[k]])

(***************************************************************************)
(* What the merge of a model leaves alone.                                 *)
(***************************************************************************)
merging == pc \in {"createMap", "stream", "flushSrc", "flushFinal", "indices"}

\* C30: a step taken while model M is merged changes the rows of no table and
\* of no map table of another model: only M and M_id_map are written.
mergeWritesOwnTables ==
    merging =>
       \A m \in Models :
          m.name # order[mi].name =>
             /\ Rows(dest', m.name) = Rows(dest, m.name)
             /\ Rows(dest', m.mapTable) = Rows(dest, m.mapTable)

OtherModelsUntouched == [][mergeWritesOwnTables]_vars

\* C30 witness: the rows of the second model and their map rows are written,
\* next to the rows and the map rows of the first model.
SecondModelWritten ==
    /\ pc = "indices"
    /\ mi = 2
    /\ DestRows(order[2]) # {}
    /\ MapRows(order[2]) # {}
    /\ DestRows(order[1]) # {}
    /\ MapRows(order[1]) # {}

(***************************************************************************)
(* The map table against the table of its model.                           *)
(***************************************************************************)
\* The merge of the model is over: mergeModel has returned for it.
completed(model) ==
    /\ order # <<>>
    /\ mapsKept
    /\ position(model) < mi

\* C31: once the merge of a model is over, the new_id of every row of its map
\* table is the primary key of a row of the model's table in the destination,
\* and the primary key of every row of that table is the new_id of a map row.
MapMatchesTable ==
    \A m \in Models :
       completed(m) =>
          /\ \A e \in MapRows(m) : \E d \in DestRows(m) : pkOf(m, d.v) = e.v.new_id
          /\ \A d \in DestRows(m) : \E e \in MapRows(m) : e.v.new_id = pkOf(m, d.v)

\* C31 witness: the models are merged; a map table holds an entry for a row
\* found in the destination and a map table holds an entry for a row stored
\* under a new key.
MapOfFoundAndMinted ==
    /\ \A m \in Models : completed(m)
    /\ \E m \in Models : found(m) # {}
    /\ \E m \in Models : \E e \in MapRows(m) :
          e.src.how = "inserted" /\ e.v.new_id # e.v.old_id

numbers(stmts) ==
    LET ins == SelectSeq(stmts, LAMBDA st : st.op = "INSERT")
    IN [k \in 1..Len(ins) |-> ins[k].n]

\* The numbers of the statements waiting: batch after batch as the driver
\* will take them, then the buffer.
RECURSIVE waiting(_)
waiting(queue) ==
    IF queue = <<>> THEN numbers(inserter.statements)
    ELSE numbers(Head(queue).stmts) \o waiting(Tail(queue))

executed(db) == {d.src : d \in Rows(db, Journal)}

\* As long as no batch has failed, the statements executed are the first k
\* submitted and the statements waiting are the others, in order, each in one
\* place; once nothing waits, every statement submitted has been executed.
allOnce ==
    errors = {} =>
       LET k == Cardinality(executed(dest))
       IN /\ executed(dest) = 1..k
          /\ waiting(inflight) = [i \in 1..(minted - k) |-> k + i]
          /\ (inflight = <<>> /\ inserter.statements = <<>>) => executed(dest) = 1..minted

\* The driver executes one batch at a time, the oldest: all its statements,
\* each later than every statement executed before.
oldestBatchNext ==
    dest' # dest =>
       /\ inflight # <<>>
       /\ inflight' = Tail(inflight)
       /\ executed(dest') \ executed(dest) = Range(numbers(Head(inflight).stmts))
       /\ executed(dest) \cap Range(numbers(Head(inflight).stmts)) = {}
       /\ \A a \in executed(dest) : \A b \in executed(dest') \ executed(dest) : a < b
       /\ dest'.commits = dest.commits + 1

\* C33: when no flush fails, every statement handed to insert or
\* insertSupporting is executed once, in one batch, and in the order of
\* submission, also when calls are made while batches are being executed; after
\* a final flush nothing is left unexecuted.
ExactlyOnceInOrder == []allOnce /\ [][oldestBatchNext]_vars

\* C33 witness: MaxRows statements went out in three batches or more, some
\* handed over while an earlier batch was still with the driver; the last flush
\* has returned and all are in the destination.
AllExecuted ==
    /\ pc = "returned"
    /\ errors = {}
    /\ inflight = <<>>
    /\ inserter.statements = <<>>
    /\ minted = MaxRows
    /\ executed(dest) = 1..MaxRows
    /\ dest.commits >= 3

(***************************************************************************)
(* Connection.each settles when its callbacks have.                        *)
(***************************************************************************)
delivered == (1..progress.total) \ todo

eachSafe ==
    \* the callback is called once for every row delivered, and for no other
    /\ Len(each.called) = Cardinality(Range(each.called))
    /\ Range(each.called) = delivered
    /\ {cb.id : cb \in cbs} = delivered
    \* the worker does not sleep while a promise is queued or db.each is over
    /\ (each.worker = "ready" /\ ~each.ready) => (each.queue = <<>> /\ ~each.finished)
    \* each resolves only when every row is delivered and every promise fulfilled
    /\ pc = "resolved" =>
          /\ todo = {}
          /\ each.queue = <<>>
          /\ \A cb \in cbs : cb.pc = "fulfilled"

\* C34: the promise of Connection.each resolves only after the callback was
\* called exactly once for every row delivered and all the promises of these
\* calls have settled, however row arrivals and settlements interleave; the
\* worker misses no wake-up, so that each settles in the end; and when the
\* promise of a callback rejects, each rejects.
EachCompletes ==
    /\ []eachSafe
    /\ <>(pc \in {"resolved", "rejected"})
    /\ ((\E cb \in cbs : cb.pc = "rejected") ~> (pc = "rejected"))

\* C34 witness: each has resolved after MaxRows rows, the last of which
\* arrived after the worker had gone back to sleep at least once.
EachResolved ==
    /\ pc = "resolved"
    /\ progress.total = MaxRows
    /\ Len(each.called) = MaxRows
    /\ \A cb \in cbs : cb.pc = "fulfilled"

====
